---- MODULE Spec2Model ----
(***************************************************************************)
(* Batch ledger of the restaurant inventory backend                        *)
(* (backend/app/models/batch.py, backend/app/utils/query.py,               *)
(* backend/app/routes/batches.py).                                         *)
(*                                                                         *)
(* The table ingredient_batches is the sequence `batches`; batch_id is the *)
(* position of the row (a serial key).  Quantities are integers (units of  *)
(* the smallest recorded amount); dates are day numbers.                   *)
(***************************************************************************)
EXTENDS Integers, Sequences, FiniteSets, TLC

\* ------------------------------------------------------------------ bounds
MaxBatches == 2
MaxQty == 2
MaxDay == 2

\* SQL NULL / Python None: a value outside every quantity and date of the model
NULL == -99

RestaurantIds == {1, 2}
IngredientIds == {7}
Days == 1..MaxDay
\* request bodies: a missing quantity, non-positive and positive quantities
QtyInputs == {NULL} \cup ((-1)..MaxQty)
\* quantities handed to fifo_deduct: non-positive ones, up to more than one
\* batch can hold, and the request of the shortfall scenario
DeductInputs == ((-1)..(MaxQty + 1)) \cup {15}
DateInputs == {NULL} \cup Days

\* the concurrent callers of fifo_deduct (request handlers, one connection each)
NumWorkers == 2
\* the posts accepted in all
MaxPosts == 4
\* the greatest number of half days handed to determine_priority
MaxHalfDays == 30
\* the words of an ingredient name
MaxWords == 2
\* the greatest inventory, daily usage, forecast before the bias correction
\* and bias correction of a recommendation run on one ingredient
MaxInventory == 12
MaxUsage == 6
MaxPredicted == 20
MaxBias == 2
\* the ingredients of a recommendation run on several
MaxRows == 4
Workers == 1..NumWorkers

VARIABLES
    batches,    \* committed rows of ingredient_batches, batch_id = index
    today,      \* CURRENT_DATE
    last,       \* the last call: its arguments and what it returned
    txn,        \* per worker: the fifo_deduct call it is in, and its transaction
    base,       \* the committed rows when the first of the concurrent calls began
    logs,       \* committed rows of daily_inventory_log
    posted,     \* per (restaurant, ingredient, day): the quantities posted
    reply,      \* the last reply of a log route
    post,       \* per worker: the log post it is in, and its transaction
    calc        \* the last evaluation of a function of the forecast services

vars == <<batches, today, last, txn, base, logs, posted, reply, post, calc>>

\* what the calls of the batch ledger leave alone
others == <<logs, posted, reply, post, calc>>

\* ------------------------------------------------------------- helpers
Max(a, b) == IF a >= b THEN a ELSE b
Min(a, b) == IF a <= b THEN a ELSE b

\* COALESCE(a, b)
Coalesce(a, b) == IF a /= NULL THEN a ELSE b

NoCall ==
    [op |-> "none", restaurant_id |-> 0, ingredient_id |-> 0, qty |-> 0,
     outcome |-> "none", affected |-> <<>>, total_deducted |-> 0,
     shortfall |-> 0, returned |-> <<>>, order |-> <<>>,
     received_date |-> NULL]

\* -------------------------------------------------------------- create_batch
\* column default of ingredient_batches.status
StatusDefault == "active"

\* mutant: the received date is stored as given, without COALESCE
NewBatchRowNoDefaultDate(batch_id, restaurant_id, ingredient_id, qty_received, received_date, expiration_date) ==
    [batch_id |-> batch_id,
     restaurant_id |-> restaurant_id,
     ingredient_id |-> ingredient_id,
     qty_received |-> qty_received,
     qty_remaining |-> qty_received,
     received_date |-> received_date,
     expiration_date |-> expiration_date,
     status |-> StatusDefault]

NewBatchRow(batch_id, restaurant_id, ingredient_id, qty_received, received_date, expiration_date) ==
    [batch_id |-> batch_id,
     restaurant_id |-> restaurant_id,
     ingredient_id |-> ingredient_id,
     qty_received |-> qty_received,
     qty_remaining |-> qty_received,
     received_date |-> Coalesce(received_date, today),
     expiration_date |-> expiration_date,
     status |-> StatusDefault]

\* execute_modify: the statement is committed, then fetchone() gives the
\* first row of the RETURNING result set, or None (here <<>>) when it is empty
FetchOne(rows) == IF rows = <<>> THEN <<>> ELSE <<rows[1]>>

create_batch(restaurant_id, ingredient_id, qty_received, received_date, expiration_date) ==
    LET row == NewBatchRow(Len(batches) + 1, restaurant_id, ingredient_id,
                           qty_received, received_date, expiration_date)
    IN /\ batches' = Append(batches, row)
       /\ last' = [NoCall EXCEPT !.op = "add_batch",
                                 !.restaurant_id = restaurant_id,
                                 !.ingredient_id = ingredient_id,
                                 !.qty = qty_received,
                                 !.received_date = received_date,
                                 !.outcome = "201",
                                 !.returned = FetchOne(<<row>>)]

\* `not qty or qty <= 0`
QtyRejected(qty) == qty = NULL \/ qty = 0 \/ qty <= 0

\* POST /api/restaurants/<r>/ingredients/<i>/batches
add_batch(restaurant_id, ingredient_id, qty, received_date, expiration_date) ==
    /\ Len(batches) < MaxBatches
    /\ IF QtyRejected(qty)
       THEN /\ last' = [NoCall EXCEPT !.op = "add_batch",
                                      !.restaurant_id = restaurant_id,
                                      !.ingredient_id = ingredient_id,
                                      !.qty = qty,
                                      !.outcome = "400"]
            /\ UNCHANGED batches
       ELSE create_batch(restaurant_id, ingredient_id, qty, received_date,
                         expiration_date)
    /\ UNCHANGED <<today, txn, base, others>>

\* --------------------------------------------------------------- fifo_deduct
\* WHERE restaurant_id = %s AND ingredient_id = %s AND status = 'active'
\* mutant: the SELECT without AND status = 'active'
ActiveIdsAnyStatus(bs, restaurant_id, ingredient_id) ==
    {k \in DOMAIN bs : /\ bs[k].restaurant_id = restaurant_id
                       /\ bs[k].ingredient_id = ingredient_id}

\* mutant: the SELECT with AND (expiration_date IS NULL OR expiration_date >=
\* CURRENT_DATE)
ActiveIdsUnexpired(bs, restaurant_id, ingredient_id) ==
    {k \in DOMAIN bs : /\ bs[k].restaurant_id = restaurant_id
                       /\ bs[k].ingredient_id = ingredient_id
                       /\ bs[k].status = "active"
                       /\ \/ bs[k].expiration_date = NULL
                          \/ bs[k].expiration_date >= today}

ActiveIds(bs, restaurant_id, ingredient_id) ==
    {k \in DOMAIN bs : /\ bs[k].restaurant_id = restaurant_id
                       /\ bs[k].ingredient_id = ingredient_id
                       /\ bs[k].status = "active"}

\* mutant: ORDER BY received_date ASC alone
SortsBeforeReceivedOnly(a, b) == a.received_date < b.received_date

\* ORDER BY expiration_date ASC NULLS LAST, received_date ASC:
\* row a sorts strictly before row b
SortsBefore(a, b) ==
    \/ a.expiration_date /= NULL /\ b.expiration_date = NULL
    \/ /\ a.expiration_date /= NULL /\ b.expiration_date /= NULL
       /\ a.expiration_date < b.expiration_date
    \/ /\ a.expiration_date = b.expiration_date
       /\ a.received_date < b.received_date

\* the orders in which the SELECT may give the rows S: every permutation the
\* ORDER BY allows (rows with equal keys come in any order)
FifoOrders(bs, S) ==
    {o \in [1..Cardinality(S) -> S] :
        /\ \A m, n \in DOMAIN o : m /= n => o[m] /= o[n]
        /\ \A m, n \in DOMAIN o : m < n => ~SortsBefore(bs[o[n]], bs[o[m]])}

\* cur.fetchall(): batch_id, qty_remaining of the rows in the given order
Fetched(bs, o) ==
    [n \in DOMAIN o |-> [batch_id |-> o[n], qty_remaining |-> bs[o[n]].qty_remaining]]

\* deducted = min(available, remaining)
Deducted(available, remaining) == Min(available, remaining)

\* new_status = "depleted" if new_qty <= 0 else "active"
NewStatus(new_qty) == IF new_qty <= 0 THEN "depleted" ELSE "active"

\* mutant: the whole request is taken from the batch, unclamped
LoopBodyUnclamped(st) ==
    LET batch == st.rows[st.idx]
        available == batch.qty_remaining
        deducted == Deducted(available, st.remaining)
        new_qty == available - st.remaining
        row == [batch_id |-> batch.batch_id,
                qty_remaining |-> new_qty,
                status |-> NewStatus(new_qty),
                qty_deducted |-> deducted]
    IN [st EXCEPT !.idx = @ + 1,
                  !.affected = Append(@, row),
                  !.remaining = @ - deducted]

\* state of the loop: the fetched rows, the next position, what is left to
\* deduct, and the rows the UPDATEs returned
LoopInit(rows, qty_to_deduct) ==
    [rows |-> rows, idx |-> 1, remaining |-> qty_to_deduct, affected |-> <<>>]

\* the loop ends at the end of the rows or at `if remaining <= 0: break`
LoopDone(st) == st.idx > Len(st.rows) \/ st.remaining <= 0

\* one iteration: the UPDATE of one batch and the bookkeeping after it
LoopBody(st) ==
    LET batch == st.rows[st.idx]
        available == batch.qty_remaining
        deducted == Deducted(available, st.remaining)
        new_qty == available - deducted
        row == [batch_id |-> batch.batch_id,
                qty_remaining |-> Max(new_qty, 0),
                status |-> NewStatus(new_qty),
                qty_deducted |-> deducted]
    IN [st EXCEPT !.idx = @ + 1,
                  !.affected = Append(@, row),
                  !.remaining = @ - deducted]

RECURSIVE RunLoop(_)
RunLoop(st) == IF LoopDone(st) THEN st ELSE RunLoop(LoopBody(st))

\* conn.commit(): the UPDATEs of the transaction become the committed rows
Committed(bs, affected) ==
    [k \in DOMAIN bs |->
        IF \E n \in DOMAIN affected : affected[n].batch_id = k
        THEN LET a == affected[CHOOSE n \in DOMAIN affected : affected[n].batch_id = k]
             IN [bs[k] EXCEPT !.qty_remaining = a.qty_remaining, !.status = a.status]
        ELSE bs[k]]

\* mutant: the request is reported as deducted in full
TotalDeductedAsRequested(qty_to_deduct, remaining) == qty_to_deduct

\* the returned dictionary
TotalDeducted(qty_to_deduct, remaining) == qty_to_deduct - Max(remaining, 0)
Shortfall(remaining) == Max(remaining, 0)

\* the whole call, without a failing statement
fifo_deduct(restaurant_id, ingredient_id, qty_to_deduct) ==
    /\ \E o \in FifoOrders(batches, ActiveIds(batches, restaurant_id, ingredient_id)) :
          LET st == RunLoop(LoopInit(Fetched(batches, o), qty_to_deduct))
          IN /\ batches' = Committed(batches, st.affected)
             /\ last' = [NoCall EXCEPT
                            !.op = "fifo_deduct",
                            !.restaurant_id = restaurant_id,
                            !.ingredient_id = ingredient_id,
                            !.qty = qty_to_deduct,
                            !.outcome = "ok",
                            !.order = o,
                            !.affected = st.affected,
                            !.total_deducted = TotalDeducted(qty_to_deduct, st.remaining),
                            !.shortfall = Shortfall(st.remaining)]
    /\ UNCHANGED <<today, txn, base, others>>

\* ------------------------------------------- fifo_deduct as a transaction
\* a worker outside fifo_deduct
Idle ==
    [pc |-> "idle", restaurant_id |-> 0, ingredient_id |-> 0, qty |-> 0,
     st |-> LoopInit(<<>>, 0), outcome |-> "none",
     affected |-> <<>>, total_deducted |-> 0, shortfall |-> 0, updates |-> 0,
     overlapped |-> FALSE]

\* `last` while calls of fifo_deduct are in progress
InCall == [NoCall EXCEPT !.op = "fifo_deduct in progress"]

\* mutant: the SELECT takes no lock (no FOR UPDATE)
SelectLocksNone(t) == {}

\* rows a transaction holds locked by its SELECT ... FOR UPDATE
SelectLocks(t) ==
    IF t.pc = "loop" THEN {t.st.rows[n].batch_id : n \in DOMAIN t.st.rows} ELSE {}

\* rows a transaction holds locked by its UPDATEs
UpdateLocks(t) ==
    IF t.pc = "loop" THEN {t.st.affected[n].batch_id : n \in DOMAIN t.st.affected} ELSE {}

\* rows locked by the transactions of the other workers
LockedByOthers(w) ==
    UNION {SelectLocks(txn[v]) \cup UpdateLocks(txn[v]) : v \in Workers \ {w}}

\* mutant: the failing call keeps what it had updated (no rollback)
RolledBackPartly(bs, affected) == Committed(bs, affected)

\* conn.rollback(): the committed rows stay as they are
RolledBack(bs, affected) == bs

\* another call of fifo_deduct is in progress (kept for the record of a call)
Overlapping == \E v \in Workers : txn[v].pc \in {"select", "loop"}

\* the call fifo_deduct(restaurant_id, ingredient_id, qty) begins:
\* get_connection(), the cursor
Begin(w, restaurant_id, ingredient_id, qty_to_deduct) ==
    /\ txn[w].pc = "idle"
    /\ txn' = [txn EXCEPT ![w] = [Idle EXCEPT !.pc = "select",
                                              !.restaurant_id = restaurant_id,
                                              !.ingredient_id = ingredient_id,
                                              !.qty = qty_to_deduct,
                                              !.overlapped = Overlapping]]
    /\ base' = IF \A v \in Workers : txn[v].pc = "idle" THEN batches ELSE base
    /\ last' = InCall
    /\ UNCHANGED <<batches, today, others>>

\* SELECT ... FOR UPDATE and fetchall(): waits until no row it selects is
\* locked by another transaction, then reads the committed rows
Select(w) ==
    /\ txn[w].pc = "select"
    /\ LET S == ActiveIds(batches, txn[w].restaurant_id, txn[w].ingredient_id)
       IN /\ S \cap LockedByOthers(w) = {}
          /\ \E o \in FifoOrders(batches, S) :
                txn' = [txn EXCEPT ![w].pc = "loop",
                                   ![w].st = LoopInit(Fetched(batches, o), txn[w].qty)]
    /\ last' = InCall
    /\ UNCHANGED <<batches, today, base, others>>

\* one iteration of the loop: the UPDATE waits for the row's lock
Update(w) ==
    /\ txn[w].pc = "loop"
    /\ ~LoopDone(txn[w].st)
    /\ txn[w].st.rows[txn[w].st.idx].batch_id \notin LockedByOthers(w)
    /\ txn' = [txn EXCEPT ![w].st = LoopBody(txn[w].st)]
    /\ last' = InCall
    /\ UNCHANGED <<batches, today, base, others>>

\* conn.commit() and the return
Commit(w) ==
    /\ txn[w].pc = "loop"
    /\ LoopDone(txn[w].st)
    /\ batches' = Committed(batches, txn[w].st.affected)
    /\ txn' = [txn EXCEPT ![w] =
                 [Idle EXCEPT !.pc = "done", !.qty = txn[w].qty, !.outcome = "ok",
                              !.restaurant_id = txn[w].restaurant_id,
                              !.ingredient_id = txn[w].ingredient_id,
                              !.overlapped = txn[w].overlapped,
                              !.affected = txn[w].st.affected,
                              !.total_deducted = TotalDeducted(txn[w].qty, txn[w].st.remaining),
                              !.shortfall = Shortfall(txn[w].st.remaining)]]
    /\ last' = InCall
    /\ UNCHANGED <<today, base, others>>

\* a statement of the call raises (the SELECT, an UPDATE, the commit):
\* except Exception: conn.rollback(); raise
Fail(w) ==
    /\ txn[w].pc \in {"select", "loop"}
    /\ batches' = RolledBack(batches, txn[w].st.affected)
    /\ txn' = [txn EXCEPT ![w] =
                 [Idle EXCEPT !.pc = "done", !.qty = txn[w].qty, !.outcome = "raised",
                              !.restaurant_id = txn[w].restaurant_id,
                              !.ingredient_id = txn[w].ingredient_id,
                              !.updates = Len(txn[w].st.affected)]]
    /\ last' = InCall
    /\ UNCHANGED <<today, base, others>>

\* -------------------------------------------------------------- mark_expired
\* mutant: expiration_date <= CURRENT_DATE
ExpiredIdsInclusive(bs, restaurant_id) ==
    {k \in DOMAIN bs : /\ bs[k].restaurant_id = restaurant_id
                       /\ bs[k].status = "active"
                       /\ bs[k].expiration_date /= NULL
                       /\ bs[k].expiration_date <= today}

\* WHERE restaurant_id = %s AND status = 'active' AND expiration_date < CURRENT_DATE
\* (a NULL expiration_date compares to NULL, which is not true)
ExpiredIds(bs, restaurant_id) ==
    {k \in DOMAIN bs : /\ bs[k].restaurant_id = restaurant_id
                       /\ bs[k].status = "active"
                       /\ bs[k].expiration_date /= NULL
                       /\ bs[k].expiration_date < today}

\* SET status = 'expired'
SetExpired(bs, S) ==
    [k \in DOMAIN bs |-> IF k \in S THEN [bs[k] EXCEPT !.status = "expired"] ELSE bs[k]]

\* RETURNING batch_id, ingredient_id, expiration_date
ExpiredRow(bs, k) ==
    [batch_id |-> k, ingredient_id |-> bs[k].ingredient_id,
     expiration_date |-> bs[k].expiration_date]

\* the RETURNING result sets the UPDATE may give: the rows in any order
ReturningOrders(bs, S) ==
    {o \in [1..Cardinality(S) -> S] : \A m, n \in DOMAIN o : m /= n => o[m] /= o[n]}

mark_expired(restaurant_id) ==
    /\ LET S == ExpiredIds(batches, restaurant_id)
       IN \E o \in ReturningOrders(batches, S) :
            /\ batches' = SetExpired(batches, S)
            /\ last' = [NoCall EXCEPT
                           !.op = "mark_expired",
                           !.restaurant_id = restaurant_id,
                           !.outcome = "ok",
                           !.returned = FetchOne([n \in DOMAIN o |-> ExpiredRow(batches, o[n])])]
    /\ UNCHANGED <<today, txn, base, others>>

\* ------------------------------------------------------------------ the clock
\* midnight: CURRENT_DATE advances
NextDay ==
    /\ today < MaxDay
    /\ today' = today + 1
    /\ last' = [NoCall EXCEPT !.op = "next_day"]
    /\ UNCHANGED <<batches, txn, base, others>>

\* ------------------------------------------------------- daily_inventory_log
\* column default of daily_inventory_log.on_order_qty
OnOrderDefault == 0

\* the days of the log: the day before the first of Days, and Days
LogDays == 0..MaxDay

LogKeys == RestaurantIds \X IngredientIds \X LogDays

NoPosts == [usage |-> 0, restock |-> 0, posts |-> 0]

NoReply ==
    [op |-> "none", restaurant_id |-> 0, ingredient_id |-> 0, qty |-> 0,
     status |-> 0, row |-> <<>>, fifo |-> <<>>]

PostIdle ==
    [pc |-> "idle", op |-> "none", restaurant_id |-> 0, ingredient_id |-> 0,
     qty |-> 0, log_date |-> 0, read |-> {}, write |-> {}, outcome |-> "none",
     fresh |-> FALSE]

NoCalc ==
    [op |-> "none", predictions |-> {}, view |-> {}, restaurant_id |-> 0,
     xgboost |-> <<>>, simple |-> <<>>, all |-> <<>>]

\* no log row, no post, no reply
NoLog ==
    /\ logs = {}
    /\ posted = [k \in LogKeys |-> NoPosts]
    /\ reply = NoReply
    /\ post = [w \in Workers |-> PostIdle]

\* the rows of one (restaurant_id, ingredient_id, log_date)
RowsOf(rows, restaurant_id, ingredient_id, log_date) ==
    {x \in rows : /\ x.restaurant_id = restaurant_id
                  /\ x.ingredient_id = ingredient_id
                  /\ x.log_date = log_date}

\* mutant: the row of the day before only
PriorEndOfYesterday(rows, restaurant_id, ingredient_id, log_date) ==
    LET prior == RowsOf(rows, restaurant_id, ingredient_id, log_date - 1)
    IN IF prior = {} THEN NULL ELSE (CHOOSE x \in prior : TRUE).inventory_end

\* SELECT inventory_end FROM daily_inventory_log WHERE restaurant_id = %s
\* AND ingredient_id = %s AND log_date < CURRENT_DATE
\* ORDER BY log_date DESC LIMIT 1
PriorEnd(rows, restaurant_id, ingredient_id, log_date) ==
    LET prior == {x \in rows : /\ x.restaurant_id = restaurant_id
                               /\ x.ingredient_id = ingredient_id
                               /\ x.log_date < log_date}
    IN IF prior = {} THEN NULL
       ELSE (CHOOSE x \in prior : \A y \in prior : y.log_date <= x.log_date).inventory_end

\* mutant: the balance of a new row is clamped at 0 like a batch
UsageValuesClamped(rows, restaurant_id, ingredient_id, log_date, qty_used) ==
    [restaurant_id |-> restaurant_id, ingredient_id |-> ingredient_id,
     log_date |-> log_date,
     inventory_start |-> Coalesce(PriorEnd(rows, restaurant_id, ingredient_id, log_date), 0),
     qty_used |-> qty_used,
     inventory_end |-> Max(Coalesce(PriorEnd(rows, restaurant_id, ingredient_id, log_date), 0) - qty_used, 0),
     on_order_qty |-> OnOrderDefault]

\* VALUES (...) of upsert_usage
UsageValues(rows, restaurant_id, ingredient_id, log_date, qty_used) ==
    [restaurant_id |-> restaurant_id, ingredient_id |-> ingredient_id,
     log_date |-> log_date,
     inventory_start |-> Coalesce(PriorEnd(rows, restaurant_id, ingredient_id, log_date), 0),
     qty_used |-> qty_used,
     inventory_end |-> Coalesce(PriorEnd(rows, restaurant_id, ingredient_id, log_date), 0) - qty_used,
     on_order_qty |-> OnOrderDefault]

\* mutant: the conflicting row takes the posted quantity instead of adding it
UsageConflictOverwrites(old, excluded) ==
    [old EXCEPT !.qty_used = excluded.qty_used,
                !.inventory_end = old.inventory_start - excluded.qty_used]

\* ON CONFLICT ... DO UPDATE SET of upsert_usage
UsageConflict(old, excluded) ==
    [old EXCEPT !.qty_used = old.qty_used + excluded.qty_used,
                !.inventory_end = old.inventory_end - excluded.qty_used]

\* VALUES (...) of upsert_restock
RestockValues(rows, restaurant_id, ingredient_id, log_date, restock_qty) ==
    [restaurant_id |-> restaurant_id, ingredient_id |-> ingredient_id,
     log_date |-> log_date,
     inventory_start |-> Coalesce(PriorEnd(rows, restaurant_id, ingredient_id, log_date), 0),
     qty_used |-> 0,
     inventory_end |-> Coalesce(PriorEnd(rows, restaurant_id, ingredient_id, log_date), 0) + restock_qty,
     on_order_qty |-> restock_qty]

\* ON CONFLICT ... DO UPDATE SET of upsert_restock
RestockConflict(old, excluded) ==
    [old EXCEPT !.inventory_end = old.inventory_end + excluded.on_order_qty,
                !.on_order_qty = old.on_order_qty + excluded.on_order_qty]

\* the row the statement writes: the VALUES row, or on a conflict with the
\* row of the same (restaurant_id, ingredient_id, log_date) the updated row
UpsertRow(rows, op, restaurant_id, ingredient_id, log_date, qty) ==
    LET old == RowsOf(rows, restaurant_id, ingredient_id, log_date)
        excluded == IF op = "post_usage"
                    THEN UsageValues(rows, restaurant_id, ingredient_id, log_date, qty)
                    ELSE RestockValues(rows, restaurant_id, ingredient_id, log_date, qty)
    IN IF old = {} THEN excluded
       ELSE IF op = "post_usage"
            THEN UsageConflict(CHOOSE x \in old : TRUE, excluded)
            ELSE RestockConflict(CHOOSE x \in old : TRUE, excluded)

\* the table after the statement
Upserted(rows, op, restaurant_id, ingredient_id, log_date, qty) ==
    (rows \ RowsOf(rows, restaurant_id, ingredient_id, log_date))
        \cup {UpsertRow(rows, op, restaurant_id, ingredient_id, log_date, qty)}

upsert_usage(rows, restaurant_id, ingredient_id, qty_used) ==
    Upserted(rows, "post_usage", restaurant_id, ingredient_id, today, qty_used)

upsert_restock(rows, restaurant_id, ingredient_id, restock_qty) ==
    Upserted(rows, "post_restock", restaurant_id, ingredient_id, today, restock_qty)

\* the quantities posted, with one more post
Posting(p, op, restaurant_id, ingredient_id, log_date, qty) ==
    LET k == <<restaurant_id, ingredient_id, log_date>>
    IN [p EXCEPT ![k] = [usage |-> @.usage + (IF op = "post_usage" THEN qty ELSE 0),
                         restock |-> @.restock + (IF op = "post_restock" THEN qty ELSE 0),
                         posts |-> @.posts + 1]]

\* the number of posts accepted so far
RECURSIVE SumPosts(_, _)
SumPosts(p, K) ==
    IF K = {} THEN 0
    ELSE LET k == CHOOSE x \in K : TRUE
         IN p[k].posts + SumPosts(p, K \ {k})

\* mutant: only a negative quantity is refused
QtyInvalidNegativeOnly(qty) == qty /= NULL /\ qty < 0

\* log_usage, log_restock: if qty is None or qty <= 0: raise ValueError
QtyInvalid(qty) == qty = NULL \/ qty <= 0

\* mutant: the failure of fifo_deduct fails the request
UsageReplyFifoFailedAs500(row) == [status |-> 500, row |-> <<>>, fifo |-> <<>>]

\* except Exception: result["fifo"] = None; return jsonify(result), 201
UsageReplyFifoFailed(row) == [status |-> 201, row |-> <<row>>, fifo |-> <<>>]

\* result["fifo"] = fifo_result; return jsonify(result), 201
UsageReply(row, fifo_result) == [status |-> 201, row |-> <<row>>, fifo |-> <<fifo_result>>]

LogReply(op, restaurant_id, ingredient_id, qty, r) ==
    [NoReply EXCEPT !.op = op, !.restaurant_id = restaurant_id,
                    !.ingredient_id = ingredient_id, !.qty = qty,
                    !.status = r.status, !.row = r.row, !.fifo = r.fifo]

\* POST /api/restaurants/<r>/inventory/<i>/usage
post_usage(restaurant_id, ingredient_id, qty_used) ==
    /\ SumPosts(posted, LogKeys) < MaxPosts
    /\ IF QtyInvalid(qty_used)
       THEN /\ reply' = LogReply("post_usage", restaurant_id, ingredient_id, qty_used,
                                 [status |-> 400, row |-> <<>>, fifo |-> <<>>])
            /\ last' = [NoCall EXCEPT !.op = "post_usage",
                                      !.restaurant_id = restaurant_id,
                                      !.ingredient_id = ingredient_id,
                                      !.qty = qty_used, !.outcome = "400"]
            /\ UNCHANGED <<logs, posted, batches>>
       ELSE LET row == UpsertRow(logs, "post_usage", restaurant_id, ingredient_id, today, qty_used)
            IN /\ logs' = upsert_usage(logs, restaurant_id, ingredient_id, qty_used)
               /\ posted' = Posting(posted, "post_usage", restaurant_id, ingredient_id, today, qty_used)
               /\ \/ \E o \in FifoOrders(batches, ActiveIds(batches, restaurant_id, ingredient_id)) :
                       LET st == RunLoop(LoopInit(Fetched(batches, o), qty_used))
                           call == [NoCall EXCEPT
                                      !.op = "fifo_deduct",
                                      !.restaurant_id = restaurant_id,
                                      !.ingredient_id = ingredient_id,
                                      !.qty = qty_used,
                                      !.outcome = "ok",
                                      !.order = o,
                                      !.affected = st.affected,
                                      !.total_deducted = TotalDeducted(qty_used, st.remaining),
                                      !.shortfall = Shortfall(st.remaining)]
                       IN /\ batches' = Committed(batches, st.affected)
                          /\ last' = call
                          /\ reply' = LogReply("post_usage", restaurant_id, ingredient_id, qty_used,
                                               UsageReply(row, [affected_batches |-> call.affected,
                                                                total_deducted |-> call.total_deducted,
                                                                shortfall |-> call.shortfall]))
                  \/ \E o \in FifoOrders(batches, ActiveIds(batches, restaurant_id, ingredient_id)) :
                       LET st == RunLoop(LoopInit(Fetched(batches, o), qty_used))
                       IN /\ batches' = RolledBack(batches, st.affected)
                          /\ last' = [NoCall EXCEPT
                                        !.op = "fifo_deduct",
                                        !.restaurant_id = restaurant_id,
                                        !.ingredient_id = ingredient_id,
                                        !.qty = qty_used,
                                        !.outcome = "raised"]
                          /\ reply' = LogReply("post_usage", restaurant_id, ingredient_id, qty_used,
                                               UsageReplyFifoFailed(row))
    /\ UNCHANGED <<today, txn, base, post, calc>>

\* POST /api/restaurants/<r>/inventory/<i>/restock
post_restock(restaurant_id, ingredient_id, restock_qty) ==
    /\ SumPosts(posted, LogKeys) < MaxPosts
    /\ IF QtyInvalid(restock_qty)
       THEN /\ reply' = LogReply("post_restock", restaurant_id, ingredient_id, restock_qty,
                                 [status |-> 400, row |-> <<>>, fifo |-> <<>>])
            /\ last' = [NoCall EXCEPT !.op = "post_restock",
                                      !.restaurant_id = restaurant_id,
                                      !.ingredient_id = ingredient_id,
                                      !.qty = restock_qty, !.outcome = "400"]
            /\ UNCHANGED <<logs, posted>>
       ELSE LET row == UpsertRow(logs, "post_restock", restaurant_id, ingredient_id, today, restock_qty)
            IN /\ logs' = upsert_restock(logs, restaurant_id, ingredient_id, restock_qty)
               /\ posted' = Posting(posted, "post_restock", restaurant_id, ingredient_id, today, restock_qty)
               /\ last' = [NoCall EXCEPT !.op = "post_restock",
                                         !.restaurant_id = restaurant_id,
                                         !.ingredient_id = ingredient_id,
                                         !.qty = restock_qty, !.outcome = "201"]
               /\ reply' = LogReply("post_restock", restaurant_id, ingredient_id, restock_qty,
                                    [status |-> 201, row |-> <<row>>, fifo |-> <<>>])
    /\ UNCHANGED <<batches, today, txn, base, post, calc>>

\* ---------------------------------------------------- posts as transactions
\* `last` while posts are in progress
InPost == [NoCall EXCEPT !.op = "post in progress"]

\* the posts in progress
InPostCall(w) == post[w].pc \in {"execute", "commit", "fifo"}

\* mutant: the statement takes no lock on the row of its key
LogLocksNone(w) == {}

\* the keys locked by the transaction of worker w: the row it has inserted or
\* updated and not yet committed
LogLocks(w) ==
    IF post[w].pc = "commit"
    THEN {<<post[w].restaurant_id, post[w].ingredient_id, post[w].log_date>>}
    ELSE {}

LogLockedByOthers(w) == UNION {LogLocks(v) : v \in Workers \ {w}}

\* post_usage / post_restock entered with a valid quantity
PostBegin(w, op, restaurant_id, ingredient_id, qty) ==
    /\ post[w].pc \in {"idle", "done"}
    /\ SumPosts(posted, LogKeys) + Cardinality({v \in Workers : InPostCall(v)}) < MaxPosts
    /\ post' = [post EXCEPT ![w] =
                  [PostIdle EXCEPT !.pc = "execute", !.op = op,
                                   !.restaurant_id = restaurant_id,
                                   !.ingredient_id = ingredient_id,
                                   !.qty = qty,
                                   !.fresh = RowsOf(logs, restaurant_id, ingredient_id, today) = {}]]
    /\ last' = InPost
    /\ UNCHANGED <<batches, today, txn, base, logs, posted, reply, calc>>

\* cur.execute(sql, params): waits while another transaction holds the row of
\* the key, then inserts the row or updates the committed one
PostExecute(w) ==
    /\ post[w].pc = "execute"
    /\ <<post[w].restaurant_id, post[w].ingredient_id, today>> \notin LogLockedByOthers(w)
    /\ post' = [post EXCEPT ![w] =
                  [@ EXCEPT !.pc = "commit",
                            !.log_date = today,
                            !.read = RowsOf(logs, post[w].restaurant_id,
                                            post[w].ingredient_id, today),
                            !.write = {UpsertRow(logs, post[w].op, post[w].restaurant_id,
                                                 post[w].ingredient_id, today, post[w].qty)}]]
    /\ last' = InPost
    /\ UNCHANGED <<batches, today, txn, base, logs, posted, reply, calc>>

\* conn.commit(); return cur.fetchone()
PostCommit(w) ==
    /\ post[w].pc = "commit"
    /\ logs' = (logs \ post[w].read) \cup post[w].write
    /\ posted' = Posting(posted, post[w].op, post[w].restaurant_id,
                         post[w].ingredient_id, post[w].log_date, post[w].qty)
    /\ post' = [post EXCEPT ![w] =
                  [@ EXCEPT !.pc = IF post[w].op = "post_usage" THEN "fifo" ELSE "done",
                            !.outcome = "ok"]]
    /\ last' = InPost
    /\ UNCHANGED <<batches, today, txn, base, reply, calc>>

\* except Exception: conn.rollback(); raise
PostFail(w) ==
    /\ post[w].pc \in {"execute", "commit"}
    /\ post' = [post EXCEPT ![w] = [@ EXCEPT !.pc = "done", !.outcome = "raised",
                                             !.read = {}, !.write = {}]]
    /\ last' = InPost
    /\ UNCHANGED <<batches, today, txn, base, logs, posted, reply, calc>>

\* post_usage after log_usage: fifo_deduct, best effort
PostFifo(w) ==
    /\ post[w].pc = "fifo"
    /\ \/ \E o \in FifoOrders(batches, ActiveIds(batches, post[w].restaurant_id, post[w].ingredient_id)) :
            LET st == RunLoop(LoopInit(Fetched(batches, o), post[w].qty))
            IN batches' = Committed(batches, st.affected)
       \/ UNCHANGED batches
    /\ post' = [post EXCEPT ![w] = [@ EXCEPT !.pc = "done"]]
    /\ last' = InPost
    /\ UNCHANGED <<today, txn, base, logs, posted, reply, calc>>

\* ------------------------------------------------------------ predictions
\* the ingredients of the forecast tables
ForecastIngredientIds == {7, 8}

\* rows of the table predictions: restaurant 1 with every ingredient and date,
\* restaurant 2 with one row
PredictionRows ==
    {[restaurant_id |-> 1, ingredient_id |-> i, prediction_date |-> d] :
        i \in ForecastIngredientIds, d \in Days}
    \cup {[restaurant_id |-> 2, ingredient_id |-> 7, prediction_date |-> 1]}

\* rows of the view v_simple_prediction_items: restaurant 1 with every
\* ingredient, without and with usage, restaurant 2 with one row
ViewRows ==
    {[restaurant_id |-> 1, ingredient_id |-> i, current_inventory |-> 3,
      on_order_qty |-> 0, avg_daily_usage |-> u] :
        i \in ForecastIngredientIds, u \in {0, 2}}
    \cup {[restaurant_id |-> 2, ingredient_id |-> 7, current_inventory |-> 1,
           on_order_qty |-> 0, avg_daily_usage |-> 2]}

\* the rows of a result set, in any order
Orderings(S) ==
    {o \in [1..Cardinality(S) -> S] : \A m, n \in DOMAIN o : m /= n => o[m] /= o[n]}

\* round(n / d) of Python for n >= 0, d > 0: halves go to the even neighbour
PyRound(n, d) ==
    LET q == n \div d
        r == n % d
    IN IF 2 * r < d THEN q
       ELSE IF 2 * r > d THEN q + 1
       ELSE IF q % 2 = 0 THEN q ELSE q + 1

\* WHERE p.restaurant_id = %s AND p.prediction_date =
\* (SELECT MAX(prediction_date) FROM predictions WHERE restaurant_id = %s)
get_xgboost_predictions(preds, restaurant_id) ==
    LET mine == {p \in preds : p.restaurant_id = restaurant_id}
    IN {p \in mine : \A o \in mine : o.prediction_date <= p.prediction_date}

\* FROM v_simple_prediction_items WHERE restaurant_id = %s
get_simple_prediction_items(view, restaurant_id) ==
    {x \in view : x.restaurant_id = restaurant_id}

tag_xgboost(row) ==
    [ingredient_id |-> row.ingredient_id, prediction_date |-> row.prediction_date,
     confidence |-> "high"]

compute_simple_prediction(row) ==
    [ingredient_id |-> row.ingredient_id,
     current_inventory |-> row.current_inventory,
     on_order_qty |-> row.on_order_qty,
     avg_daily_usage |-> row.avg_daily_usage,
     days_until_stockout |->
        IF row.avg_daily_usage > 0
        THEN PyRound(row.current_inventory + row.on_order_qty, row.avg_daily_usage)
        ELSE NULL,
     confidence |-> "low"]

\* GET /api/restaurants/<r>/predictions, on the tables preds and view
get_all_predictions(preds, view, restaurant_id) ==
    /\ \E xo \in Orderings(get_xgboost_predictions(preds, restaurant_id)),
          so \in Orderings(get_simple_prediction_items(view, restaurant_id)) :
          LET xgboost == [n \in DOMAIN xo |-> tag_xgboost(xo[n])]
              simple == [n \in DOMAIN so |-> compute_simple_prediction(so[n])]
          IN calc' = [op |-> "get_all_predictions",
                      predictions |-> preds, view |-> view,
                      restaurant_id |-> restaurant_id,
                      xgboost |-> xgboost, simple |-> simple,
                      all |-> xgboost \o simple]
    /\ UNCHANGED <<batches, today, last, txn, base, logs, posted, reply, post>>

\* WHERE p.restaurant_id = %s AND p.ingredient_id = %s AND p.prediction_date =
\* (SELECT MAX(prediction_date) FROM predictions
\*  WHERE restaurant_id = %s AND ingredient_id = %s)
get_xgboost_prediction_single(preds, restaurant_id, ingredient_id) ==
    LET mine == {p \in preds : /\ p.restaurant_id = restaurant_id
                               /\ p.ingredient_id = ingredient_id}
    IN {p \in mine : \A o \in mine : o.prediction_date <= p.prediction_date}

\* FROM v_simple_prediction_items WHERE restaurant_id = %s AND ingredient_id = %s
get_simple_prediction_item(view, restaurant_id, ingredient_id) ==
    {x \in view : x.restaurant_id = restaurant_id /\ x.ingredient_id = ingredient_id}

\* the entry of the single lookup: XGBoost preferred, simple fallback, or none
SinglePrediction(preds, view, restaurant_id, ingredient_id) ==
    LET xg == get_xgboost_prediction_single(preds, restaurant_id, ingredient_id)
        simple == get_simple_prediction_item(view, restaurant_id, ingredient_id)
    IN IF xg /= {} THEN {<<tag_xgboost(x)>> : x \in xg}
       ELSE IF simple /= {} THEN {<<compute_simple_prediction(x)>> : x \in simple}
       ELSE {<<>>}

\* GET /api/restaurants/<r>/predictions/<i>, on the tables of the last merge
\* and for its restaurant; the result of the merge is kept beside the entry
get_single_prediction(preds, view, restaurant_id, ingredient_id) ==
    /\ \E entry \in SinglePrediction(preds, view, restaurant_id, ingredient_id) :
          calc' = [op |-> "get_single_prediction",
                   predictions |-> preds, view |-> view,
                   restaurant_id |-> restaurant_id,
                   xgboost |-> calc.xgboost, simple |-> calc.simple,
                   all |-> calc.all,
                   ingredient_id |-> ingredient_id,
                   single |-> entry]
    /\ UNCHANGED <<batches, today, last, txn, base, logs, posted, reply, post>>

\* ------------------------------------------------------- determine_priority
\* a number of days, in the half days the model counts in
DaysOf(n) == 2 * n

\* float('inf')
Infinity == 1000000

\* the arguments of determine_priority, in half days
StockoutValues == ((-1)..MaxHalfDays) \cup {Infinity}
SpoilageValues == (-1)..MaxHalfDays

\* IngredientCategory
Categories == {"produce", "protein", "dairy", "non_perishable", "alcohol_dry"}

\* mutant: an empty stock is not an immediate stockout
IsCriticalUnlessEmpty(days_until_stockout, days_until_spoilage) ==
    \/ days_until_spoilage < DaysOf(1)
    \/ (days_until_stockout < DaysOf(1) /\ days_until_stockout > 0)

\* if days_until_spoilage < 1 or days_until_stockout < 1
IsCritical(days_until_stockout, days_until_spoilage) ==
    days_until_spoilage < DaysOf(1) \/ days_until_stockout < DaysOf(1)

determine_priority(days_until_stockout, days_until_spoilage, restock_needed, category) ==
    IF ~restock_needed /\ days_until_spoilage > DaysOf(3) THEN "LOW"
    ELSE IF IsCritical(days_until_stockout, days_until_spoilage) THEN "CRITICAL"
    ELSE IF category \in {"produce", "protein"}
         THEN IF days_until_stockout < DaysOf(3) \/ days_until_spoilage < DaysOf(2) THEN "HIGH"
              ELSE IF days_until_stockout < DaysOf(5) \/ restock_needed THEN "MEDIUM"
              ELSE "LOW"
    ELSE IF category = "dairy"
         THEN IF days_until_stockout < DaysOf(5) \/ days_until_spoilage < DaysOf(3) THEN "HIGH"
              ELSE IF days_until_stockout < DaysOf(7) \/ restock_needed THEN "MEDIUM"
              ELSE "LOW"
    ELSE IF days_until_stockout < DaysOf(7) THEN "HIGH"
         ELSE IF days_until_stockout < DaysOf(14) \/ restock_needed THEN "MEDIUM"
         ELSE "LOW"

\* a call of determine_priority and what it returned
PriorityCall(days_until_stockout, days_until_spoilage, restock_needed, category) ==
    [op |-> "determine_priority",
     days_until_stockout |-> days_until_stockout,
     days_until_spoilage |-> days_until_spoilage,
     restock_needed |-> restock_needed,
     category |-> category,
     priority |-> determine_priority(days_until_stockout, days_until_spoilage,
                                     restock_needed, category)]

\* the next call, with one argument changed
Prioritize ==
    /\ \/ \E d \in StockoutValues :
            calc' = PriorityCall(d, calc.days_until_spoilage, calc.restock_needed, calc.category)
       \/ \E s \in SpoilageValues :
            calc' = PriorityCall(calc.days_until_stockout, s, calc.restock_needed, calc.category)
       \/ \E b \in BOOLEAN :
            calc' = PriorityCall(calc.days_until_stockout, calc.days_until_spoilage, b, calc.category)
       \/ \E c \in Categories :
            calc' = PriorityCall(calc.days_until_stockout, calc.days_until_spoilage,
                                 calc.restock_needed, c)
    /\ UNCHANGED <<batches, today, last, txn, base, logs, posted, reply, post>>

\* ------------------------------------------------------ classify_ingredient
\* strings are sequences of characters
\* produce_keywords
produce_keywords ==
    {<<"l", "e", "t", "t", "u", "c", "e">>,
     <<"t", "o", "m", "a", "t", "o">>,
     <<"o", "n", "i", "o", "n">>,
     <<"b", "e", "l", "l">>,
     <<"p", "e", "p", "p", "e", "r">>,
     <<"c", "u", "c", "u", "m", "b", "e", "r">>,
     <<"c", "a", "r", "r", "o", "t">>,
     <<"s", "p", "i", "n", "a", "c", "h">>,
     <<"a", "r", "u", "g", "u", "l", "a">>,
     <<"r", "o", "m", "a", "i", "n", "e">>,
     <<"b", "a", "s", "i", "l">>,
     <<"c", "i", "l", "a", "n", "t", "r", "o">>,
     <<"p", "a", "r", "s", "l", "e", "y">>,
     <<"h", "e", "r", "b">>,
     <<"m", "u", "s", "h", "r", "o", "o", "m">>,
     <<"a", "v", "o", "c", "a", "d", "o">>,
     <<"l", "i", "m", "e">>,
     <<"l", "e", "m", "o", "n">>,
     <<"p", "o", "t", "a", "t", "o">>,
     <<"c", "e", "l", "e", "r", "y">>}

\* protein_keywords
protein_keywords ==
    {<<"c", "h", "i", "c", "k", "e", "n">>,
     <<"b", "e", "e", "f">>,
     <<"p", "o", "r", "k">>,
     <<"f", "i", "s", "h">>,
     <<"s", "a", "l", "m", "o", "n">>,
     <<"t", "u", "n", "a">>,
     <<"s", "h", "r", "i", "m", "p">>,
     <<"t", "u", "r", "k", "e", "y">>,
     <<"d", "u", "c", "k">>,
     <<"l", "a", "m", "b">>,
     <<"b", "a", "c", "o", "n">>,
     <<"s", "a", "u", "s", "a", "g", "e">>,
     <<"h", "a", "m">>,
     <<"m", "e", "a", "t">>}

\* dairy_keywords
dairy_keywords ==
    {<<"c", "h", "e", "e", "s", "e">>,
     <<"m", "i", "l", "k">>,
     <<"c", "r", "e", "a", "m">>,
     <<"b", "u", "t", "t", "e", "r">>,
     <<"y", "o", "g", "u", "r", "t">>,
     <<"m", "o", "z", "z", "a", "r", "e", "l", "l", "a">>,
     <<"c", "h", "e", "d", "d", "a", "r">>,
     <<"p", "a", "r", "m", "e", "s", "a", "n">>,
     <<"s", "w", "i", "s", "s">>,
     <<"g", "o", "a", "t">>,
     <<"f", "e", "t", "a">>,
     <<"r", "i", "c", "o", "t", "t", "a">>}

\* non_perishable_keywords
non_perishable_keywords ==
    {<<"r", "i", "c", "e">>,
     <<"p", "a", "s", "t", "a">>,
     <<"f", "l", "o", "u", "r">>,
     <<"s", "u", "g", "a", "r">>,
     <<"s", "a", "l", "t">>,
     <<"o", "i", "l">>,
     <<"v", "i", "n", "e", "g", "a", "r">>,
     <<"s", "a", "u", "c", "e">>,
     <<"d", "r", "e", "s", "s", "i", "n", "g">>,
     <<"s", "p", "i", "c", "e">>,
     <<"s", "e", "a", "s", "o", "n", "i", "n", "g">>,
     <<"b", "r", "e", "a", "d">>,
     <<"b", "u", "n">>,
     <<"c", "r", "o", "u", "t", "o", "n">>,
     <<"n", "o", "o", "d", "l", "e">>,
     <<"g", "r", "a", "i", "n">>}

\* alcohol_dry_keywords
alcohol_dry_keywords ==
    {<<"w", "i", "n", "e">>,
     <<"b", "e", "e", "r">>,
     <<"v", "o", "d", "k", "a">>,
     <<"w", "h", "i", "s", "k", "e", "y">>,
     <<"r", "u", "m">>,
     <<"g", "i", "n">>,
     <<"l", "i", "q", "u", "o", "r">>,
     <<"a", "l", "c", "o", "h", "o", "l">>,
     <<"s", "p", "i", "r", "i", "t">>,
     <<"c", "o", "c", "k", "t", "a", "i", "l">>,
     <<"m", "i", "x">>}

\* the words ingredient names are made of
NameWords ==
    {<<"R", "i", "c", "e">>,
     <<"W", "i", "n", "e">>,
     <<"C", "H", "I", "C", "K", "E", "N">>,
     <<"B", "r", "e", "a", "s", "t">>,
     <<"T", "o", "m", "a", "t", "o">>,
     <<"C", "h", "e", "d", "d", "a", "r">>,
     <<"G", "i", "n", "g", "e", "r">>,
     <<"N", "a", "p", "k", "i", "n", "s">>,
     <<"S", "a", "u", "c", "e">>,
     <<"B", "e", "e", "r">>,
     <<"H", "a", "m", "b", "u", "r", "g", "e", "r">>,
     <<"O", "i", "l">>}

\* str.lower() on one character
Lower(c) ==
    CASE c = "A" -> "a"
      [] c = "B" -> "b"
      [] c = "C" -> "c"
      [] c = "D" -> "d"
      [] c = "E" -> "e"
      [] c = "F" -> "f"
      [] c = "G" -> "g"
      [] c = "H" -> "h"
      [] c = "I" -> "i"
      [] c = "J" -> "j"
      [] c = "K" -> "k"
      [] c = "L" -> "l"
      [] c = "M" -> "m"
      [] c = "N" -> "n"
      [] c = "O" -> "o"
      [] c = "P" -> "p"
      [] c = "Q" -> "q"
      [] c = "R" -> "r"
      [] c = "S" -> "s"
      [] c = "T" -> "t"
      [] c = "U" -> "u"
      [] c = "V" -> "v"
      [] c = "W" -> "w"
      [] c = "X" -> "x"
      [] c = "Y" -> "y"
      [] c = "Z" -> "z"
      [] OTHER -> c

\* ingredient_name.lower()
LowerCase(s) == [n \in DOMAIN s |-> Lower(s[n])]

\* keyword in name_lower
Contains(keyword, s) ==
    \E k \in 0..(Len(s) - Len(keyword)) :
        \A j \in 1..Len(keyword) : s[k + j] = keyword[j]

\* any(keyword in name_lower for keyword in keywords)
AnyKeyword(keywords, s) == \E keyword \in keywords : Contains(keyword, s)

classify_ingredient(ingredient_name) ==
    LET name_lower == LowerCase(ingredient_name)
    IN IF AnyKeyword(produce_keywords, name_lower) THEN "produce"
       ELSE IF AnyKeyword(protein_keywords, name_lower) THEN "protein"
       ELSE IF AnyKeyword(dairy_keywords, name_lower) THEN "dairy"
       ELSE IF AnyKeyword(alcohol_dry_keywords, name_lower) THEN "alcohol_dry"
       ELSE IF AnyKeyword(non_perishable_keywords, name_lower) THEN "non_perishable"
       ELSE "non_perishable"

\* a call of classify_ingredient and what it returned
ClassifyCall(ingredient_name, words) ==
    [op |-> "classify_ingredient", ingredient_name |-> ingredient_name,
     words |-> words, category |-> classify_ingredient(ingredient_name)]

\* the next call, on the name with one more word
Classify ==
    /\ calc.words < MaxWords
    /\ \E w \in NameWords :
          calc' = ClassifyCall(IF calc.words = 0 THEN w
                               ELSE calc.ingredient_name \o <<" ">> \o w,
                               calc.words + 1)
    /\ UNCHANGED <<batches, today, last, txn, base, logs, posted, reply, post>>

\* ------------------------------------------- generate_restock_recommendations
\* CATEGORY_METADATA
CATEGORY_METADATA(category) ==
    CASE category = "produce" ->
           [shelf_life_days |-> 5, delivery_frequency_days |-> 2,
            order_lead_time_days |-> 1, waste_buffer_days |-> 2]
      [] category = "protein" ->
           [shelf_life_days |-> 4, delivery_frequency_days |-> 2,
            order_lead_time_days |-> 1, waste_buffer_days |-> 2]
      [] category = "dairy" ->
           [shelf_life_days |-> 10, delivery_frequency_days |-> 7,
            order_lead_time_days |-> 2, waste_buffer_days |-> 3]
      [] category = "non_perishable" ->
           [shelf_life_days |-> 90, delivery_frequency_days |-> 14,
            order_lead_time_days |-> 3, waste_buffer_days |-> 0]
      [] category = "alcohol_dry" ->
           [shelf_life_days |-> 365, delivery_frequency_days |-> 30,
            order_lead_time_days |-> 5, waste_buffer_days |-> 0]

\* quantities of the engine that are not whole numbers are counted in
\* hundredths (reorder point, target stock, shortfall), the suggested order
\* quantity in thousandths, the confidence band in ten-thousandths
Hundredths == 100
BandScale == 10000

\* self.safety_factor = 1.1, in tenths
safety_factor == 11

\* XGBoostInventoryModel.predict: np.expm1(pred_transformed) + self.bias_term,
\* for a whole value of expm1
predict(expm1, bias_term) == expm1 + bias_term

\* pred_std = pred_mean * 0.15 (in hundredths); the band is
\* pred_mean -/+ 1.96 * pred_std (in ten-thousandths)
predict_with_uncertainty(pred_mean) ==
    LET pred_std == 15 * pred_mean
    IN [pred_mean |-> pred_mean,
        confidence_low |-> BandScale * pred_mean - 196 * pred_std,
        confidence_high |-> BandScale * pred_mean + 196 * pred_std]

\* mutant: the days are counted after one more day of usage
calculate_days_until_stockout_after_today(current_inventory, avg_daily_usage) ==
    IF avg_daily_usage <= 0 THEN [num |-> 1, den |-> 0]
    ELSE [num |-> Max(0, current_inventory - avg_daily_usage), den |-> avg_daily_usage]

\* a number of days as a fraction num / den; den = 0 stands for float('inf')
\* calculate_days_until_stockout
calculate_days_until_stockout(current_inventory, avg_daily_usage) ==
    IF avg_daily_usage <= 0 THEN [num |-> 1, den |-> 0]
    ELSE [num |-> Max(0, current_inventory), den |-> avg_daily_usage]

\* the half days determine_priority is handed in this model: comparing the
\* fraction with a whole number of days k is comparing its whole half days
\* with DaysOf(k)
HalfDays(days) ==
    IF days.den = 0 THEN Infinity ELSE (2 * days.num) \div days.den

\* mutant: the quantity is sized whether or not a restock is needed
suggested_qty_ungated(restock_needed, shortfall) == Max(0, shortfall * safety_factor)

\* if restock_needed: suggested_qty = max(0, shortfall * self.safety_factor)
\* else: suggested_qty = 0 -- in thousandths, for a shortfall in hundredths
suggested_qty(restock_needed, shortfall) ==
    IF restock_needed THEN Max(0, shortfall * safety_factor) ELSE 0

\* the body of the loop for one row of `grouped` with the forecast pred_mean
Recommend(row, pred_mean) ==
    LET current_inventory == row.inventory_start
        avg_daily_usage == row.avg_daily_usage_7d
        category == classify_ingredient(row.ingredient_name)
        metadata == CATEGORY_METADATA(category)
        band == predict_with_uncertainty(pred_mean)
        min_stock_days == metadata.delivery_frequency_days
                            + metadata.order_lead_time_days + metadata.waste_buffer_days
        reorder_point == IF avg_daily_usage > 0
                         THEN Hundredths * avg_daily_usage * min_stock_days
                         ELSE 30 * current_inventory
        target_stock_days == metadata.delivery_frequency_days * 2
                               + metadata.order_lead_time_days
        target_stock == IF avg_daily_usage > 0
                        THEN Hundredths * avg_daily_usage * target_stock_days
                        ELSE 150 * current_inventory
        days_until_spoilage == metadata.shelf_life_days - metadata.waste_buffer_days
        predicted_end == pred_mean
        restock_needed == \/ Hundredths * predicted_end < reorder_point
                          \/ days_until_spoilage < metadata.waste_buffer_days + 1
        order_period_days == metadata.delivery_frequency_days
                               + metadata.order_lead_time_days
        needed_inventory == IF avg_daily_usage > 0
                            THEN Hundredths * avg_daily_usage * order_period_days
                            ELSE target_stock \div 2
        shortfall == IF category \in {"produce", "protein"}
                     THEN needed_inventory - Hundredths * predicted_end
                     ELSE target_stock - Hundredths * predicted_end
        days_until_stockout == calculate_days_until_stockout(predicted_end, avg_daily_usage)
    IN [ingredient_id |-> row.ingredient_id,
        ingredient_name |-> row.ingredient_name,
        category |-> category,
        current_inventory |-> current_inventory,
        avg_daily_usage |-> avg_daily_usage,
        predicted_inventory_end |-> predicted_end,
        shelf_life_days |-> metadata.shelf_life_days,
        days_until_spoilage |-> days_until_spoilage,
        reorder_point |-> reorder_point,
        target_stock_level |-> target_stock,
        restock_needed |-> restock_needed,
        suggested_order_qty |-> suggested_qty(restock_needed, shortfall),
        days_until_stockout |-> days_until_stockout,
        confidence_low |-> band.confidence_low,
        confidence_high |-> band.confidence_high,
        priority |-> determine_priority(HalfDays(days_until_stockout),
                                        DaysOf(days_until_spoilage),
                                        restock_needed, category),
        waste_risk |-> days_until_spoilage < 3
                         /\ current_inventory > avg_daily_usage * 2]

\* a row of `grouped` is the last row of an ingredient, with the number of
\* feature rows prepare_tabular_features gives for the ingredient and the
\* forecast of the model for the last of them; avg_daily_usage_7d = NULL is a
\* value that is not a number.
\* The row raises inside the try block: avg_daily_usage > 0 on a value that
\* is not a number is a TypeError
Raises(row) == row.avg_daily_usage_7d = NULL

\* mutant: the first exception ends the loop
ComputedUntilFailure(grouped, n) ==
    LET firstFailure == IF \E m \in 1..n : grouped[m].features > 0 /\ Raises(grouped[m])
                        THEN CHOOSE m \in 1..n :
                               /\ grouped[m].features > 0 /\ Raises(grouped[m])
                               /\ \A k \in 1..(m - 1) :
                                     ~(grouped[k].features > 0 /\ Raises(grouped[k]))
                        ELSE n + 1
        kept == SelectSeq(SubSeq(grouped, 1, firstFailure - 1),
                          LAMBDA row : row.features > 0)
    IN [k \in DOMAIN kept |-> Recommend(kept[k], kept[k].pred_mean)]

\* for _, row in grouped.iterrows(): try: ... recommendations.append(...)
\* except Exception: continue -- the recommendations of the first n rows
RECURSIVE Computed(_, _)
Computed(grouped, n) ==
    IF n = 0 THEN <<>>
    ELSE LET row == grouped[n]
             before == Computed(grouped, n - 1)
         IN IF row.features = 0 THEN before
            ELSE IF Raises(row) THEN before
            ELSE Append(before, Recommend(row, row.pred_mean))

\* logger.warning(...): the rows that raised
Warned(grouped) == {n \in DOMAIN grouped : grouped[n].features > 0 /\ Raises(grouped[n])}

priority_order(priority) ==
    CASE priority = "CRITICAL" -> 0 [] priority = "HIGH" -> 1
      [] priority = "MEDIUM" -> 2 [] priority = "LOW" -> 3

category_importance(category) ==
    CASE category = "protein" -> 0 [] category = "produce" -> 1
      [] category = "dairy" -> 2 [] category = "non_perishable" -> 3
      [] category = "alcohol_dry" -> 4

\* a < b for two numbers of days (fractions, den = 0 for infinity)
DaysLess(a, b) == a.num * b.den < b.num * a.den

\* the sort key of x is below the sort key of y: tuples compare item by item
KeyLess(x, y) ==
    LET px == priority_order(x.priority)
        py == priority_order(y.priority)
        cx == category_importance(x.category)
        cy == category_importance(y.category)
    IN \/ px < py
       \/ px = py /\ cx < cy
       \/ px = py /\ cx = cy /\ DaysLess(x.days_until_stockout, y.days_until_stockout)
       \/ /\ px = py /\ cx = cy
          /\ ~DaysLess(x.days_until_stockout, y.days_until_stockout)
          /\ ~DaysLess(y.days_until_stockout, x.days_until_stockout)
          /\ -x.suggested_order_qty < -y.suggested_order_qty

\* mutant: an item goes before the items of equal key
InsertBeforeEqual(sorted, x) ==
    LET before == {n \in DOMAIN sorted : KeyLess(sorted[n], x)}
        k == Cardinality(before)
    IN SubSeq(sorted, 1, k) \o <<x>> \o SubSeq(sorted, k + 1, Len(sorted))

\* list.sort is stable: an item goes behind the items whose key is not above
\* its own
Insert(sorted, x) ==
    LET before == {n \in DOMAIN sorted : ~KeyLess(x, sorted[n])}
        k == Cardinality(before)
    IN SubSeq(sorted, 1, k) \o <<x>> \o SubSeq(sorted, k + 1, Len(sorted))

\* recommendations.sort(key=...): the first n items in order
RECURSIVE Sorted(_, _)
Sorted(recs, n) ==
    IF n = 0 THEN <<>> ELSE Insert(Sorted(recs, n - 1), recs[n])

\* a call of generate_restock_recommendations on the rows `grouped` and what
\* it returned
GenerateCall(grouped) ==
    LET computed == Computed(grouped, Len(grouped))
    IN [op |-> "generate_restock_recommendations",
        grouped |-> grouped,
        computed |-> computed,
        warnings |-> Cardinality(Warned(grouped)),
        outcome |-> "returned",
        recommendations |-> Sorted(computed, Len(computed))]

\* ------------------------------------------------------------- specification
\* a ledger as a sequence of earlier receipts: rows of
\* <<restaurant_id, ingredient_id, qty_received, received_date, expiration_date>>
Received(receipts) ==
    [k \in DOMAIN receipts |->
        [batch_id |-> k,
         restaurant_id |-> receipts[k][1],
         ingredient_id |-> receipts[k][2],
         qty_received |-> receipts[k][3],
         qty_remaining |-> receipts[k][3],
         received_date |-> receipts[k][4],
         expiration_date |-> receipts[k][5],
         status |-> StatusDefault]]

\* three receipts with expirations [day 5, none, day 3] and receipt dates
\* [day 1, day 2, day 1]
OrderExampleLedger ==
    Received(<< <<1, 7, MaxQty, 1, 5>>, <<1, 7, MaxQty, 2, NULL>>, <<1, 7, MaxQty, 1, 3>> >>)

\* two receipts of 10 and 3, in FIFO order
ShortfallExampleLedger ==
    Received(<< <<1, 7, 10, 1, 3>>, <<1, 7, 3, 1, 5>> >>)

Init ==
    /\ batches \in {<<>>, OrderExampleLedger, ShortfallExampleLedger}
    /\ today = 1
    /\ last = NoCall
    /\ txn = [w \in Workers |-> Idle]
    /\ base = <<>>
    /\ NoLog
    /\ calc = NoCalc

\* the calls, with their arguments drawn from the given sets
ReceiveOf(Rs, Qs, RDs, EDs) ==
    \E r \in Rs, i \in IngredientIds, q \in Qs, rd \in RDs, ed \in EDs :
        add_batch(r, i, q, rd, ed)

ConsumeOf(Rs, Qs) ==
    \E r \in Rs, i \in IngredientIds, q \in Qs : fifo_deduct(r, i, q)

SweepOf(Rs) == \E r \in Rs : mark_expired(r)

Receive == ReceiveOf(RestaurantIds, QtyInputs, DateInputs, DateInputs)

ConsumeFIFO == ConsumeOf(RestaurantIds, DeductInputs)

SweepExpired == SweepOf(RestaurantIds)

\* the ledger with every argument free
Next == Receive \/ ConsumeFIFO \/ SweepExpired \/ NextDay

Spec == Init /\ [][Next]_vars

\* ------------------------------------------------- quantities of one pair
\* one (restaurant, ingredient); receipts without dates or already past
\* their date (day 0), every quantity argument
InitQuantities ==
    /\ batches \in {<<>>, ShortfallExampleLedger}
    /\ today = 1
    /\ last = NoCall
    /\ txn = [w \in Workers |-> Idle]
    /\ base = <<>>
    /\ NoLog
    /\ calc = NoCalc

NextQuantities ==
    \/ ReceiveOf({1}, QtyInputs, {NULL}, {NULL, 0})
    \/ ConsumeOf({1}, DeductInputs)
    \/ SweepOf({1})

SpecQuantities == InitQuantities /\ [][NextQuantities]_vars

\* ---------------------------------------------------- order of consumption
\* one (restaurant, ingredient); batches of one size with every received and
\* expiration date, requests of up to more than a batch holds and of more than
\* MaxBatches batches hold
InitOrder ==
    /\ batches \in {<<>>, OrderExampleLedger}
    /\ today = 1
    /\ last = NoCall
    /\ txn = [w \in Workers |-> Idle]
    /\ base = <<>>
    /\ NoLog
    /\ calc = NoCalc

NextOrder ==
    \/ ReceiveOf({1}, {MaxQty}, Days, DateInputs)
    \/ ConsumeOf({1}, (1..(MaxQty + 1)) \cup {MaxBatches * MaxQty + 1})

SpecOrder == InitOrder /\ [][NextOrder]_vars

\* -------------------------------------------------------------- the sweep
\* two restaurants, batches of quantity 1 with every expiration date,
\* consumption that depletes them, the days passing
InitSweep ==
    /\ batches = <<>>
    /\ today = 1
    /\ last = NoCall
    /\ txn = [w \in Workers |-> Idle]
    /\ base = <<>>
    /\ NoLog
    /\ calc = NoCalc

NextSweep ==
    \/ ReceiveOf(RestaurantIds, {1}, {1}, DateInputs)
    \/ ConsumeOf(RestaurantIds, {1})
    \/ SweepOf(RestaurantIds)
    \/ NextDay

SpecSweep == InitSweep /\ [][NextSweep]_vars

\* ------------------------------------------------------------- the receipt
\* two restaurants, every quantity and received date of the request body,
\* the days passing, consumption of what was received
NextReceipt ==
    \/ ReceiveOf(RestaurantIds, QtyInputs, DateInputs, {NULL})
    \/ ConsumeOf({1}, {1})
    \/ NextDay

SpecReceipt == InitSweep /\ [][NextReceipt]_vars

\* ------------------------------------------------------------ the daily log
\* the posts, with their arguments drawn from the given sets
PostUsageOf(Rs, Qs) ==
    \E r \in Rs, i \in IngredientIds, q \in Qs : post_usage(r, i, q)

PostRestockOf(Rs, Qs) ==
    \E r \in Rs, i \in IngredientIds, q \in Qs : post_restock(r, i, q)

\* restaurant 1 posting usage and restocks of every positive quantity over the
\* days, restaurant 2 posting usage beside it; no batch received
InitLog ==
    /\ batches = <<>>
    /\ today = 0
    /\ last = NoCall
    /\ txn = [w \in Workers |-> Idle]
    /\ base = <<>>
    /\ NoLog
    /\ calc = NoCalc

NextLog ==
    \/ PostUsageOf({1}, 1..MaxQty)
    \/ PostUsageOf({2}, {1})
    \/ PostRestockOf({1}, 1..MaxQty)
    \/ NextDay

SpecLog == InitLog /\ [][NextLog]_vars

\* ----------------------------------------------------- quantity arguments
\* receipts and posts of restaurant 1 on one day, with a quantity that is
\* missing, negative, zero or positive
NextValidation ==
    \/ ReceiveOf({1}, {NULL, -1, 0, MaxQty}, {NULL}, {NULL})
    \/ PostUsageOf({1}, {NULL, -1, 0, 1})
    \/ PostRestockOf({1}, {NULL, -1, 0, 1})

SpecValidation == InitLog /\ [][NextValidation]_vars

\* ------------------------------------------------- usage against batches
\* receipts of restaurant 1 and usage posts of less and of more than a batch
\* holds, on one day
NextUsage ==
    \/ ReceiveOf({1}, {MaxQty}, {NULL}, {NULL})
    \/ PostUsageOf({1}, {1, MaxQty + 1})

SpecUsage == InitLog /\ [][NextUsage]_vars

\* ------------------------------------------------------- concurrent posts
\* workers posting usage of 1 and restocks of MaxQty for (restaurant 1,
\* ingredient 7) on one day
LogTxnBegin ==
    \E w \in Workers :
        \/ PostBegin(w, "post_usage", 1, 7, 1)
        \/ PostBegin(w, "post_restock", 1, 7, MaxQty)

LogTxnStep ==
    \E w \in Workers : PostExecute(w) \/ PostCommit(w) \/ PostFail(w) \/ PostFifo(w)

NextLogTxn == LogTxnBegin \/ LogTxnStep

SpecLogTxn == InitLog /\ [][NextLogTxn]_vars

\* ------------------------------------------------ posts across midnight
\* workers posting restocks of MaxQty for (restaurant 1, ingredient 7) while
\* the days pass
ChainBegin == \E w \in Workers : PostBegin(w, "post_restock", 1, 7, MaxQty)

ChainStep == \E w \in Workers : PostExecute(w) \/ PostCommit(w) \/ PostFail(w)

NextChain == ChainBegin \/ ChainStep \/ NextDay

SpecChain == InitLog /\ [][NextChain]_vars

\* ------------------------------------------------------------ the forecasts
\* the forecast provider writes a row of the table predictions
EmitPrediction ==
    /\ \E row \in PredictionRows \ calc.predictions :
          calc' = [NoCalc EXCEPT !.predictions = calc.predictions \cup {row},
                                 !.view = calc.view]
    /\ UNCHANGED <<batches, today, last, txn, base, logs, posted, reply, post>>

\* an ingredient enters the view v_simple_prediction_items, or its row changes
ViewRowAppears ==
    /\ \E row \in ViewRows \ calc.view :
          calc' = [NoCalc EXCEPT
                     !.predictions = calc.predictions,
                     !.view = {x \in calc.view :
                                 \/ x.restaurant_id /= row.restaurant_id
                                 \/ x.ingredient_id /= row.ingredient_id} \cup {row}]
    /\ UNCHANGED <<batches, today, last, txn, base, logs, posted, reply, post>>

\* an ingredient leaves the view
ViewRowLeaves ==
    /\ \E row \in calc.view :
          calc' = [NoCalc EXCEPT !.predictions = calc.predictions,
                                 !.view = calc.view \ {row}]
    /\ UNCHANGED <<batches, today, last, txn, base, logs, posted, reply, post>>

\* the merge of the two tiers for a restaurant
Merge == \E r \in RestaurantIds : get_all_predictions(calc.predictions, calc.view, r)

\* the single lookup after a merge, on the same tables
Lookup ==
    /\ calc.op \in {"get_all_predictions", "get_single_prediction"}
    /\ \E i \in ForecastIngredientIds :
          get_single_prediction(calc.predictions, calc.view, calc.restaurant_id, i)

NextForecast == EmitPrediction \/ ViewRowAppears \/ ViewRowLeaves \/ Merge \/ Lookup

SpecForecast == InitLog /\ [][NextForecast]_vars

\* ------------------------------------------------------------ the priority
\* determine_priority on every argument, from a call for an item with no
\* stockout in sight, far from spoilage and with no restock needed
InitPriority ==
    /\ batches = <<>>
    /\ today = 0
    /\ last = NoCall
    /\ txn = [w \in Workers |-> Idle]
    /\ base = <<>>
    /\ NoLog
    /\ calc \in {PriorityCall(Infinity, MaxHalfDays, FALSE, c) : c \in Categories}

NextPriority == Prioritize

SpecPriority == InitPriority /\ [][NextPriority]_vars

\* --------------------------------------------------------- the categories
\* classify_ingredient on the names of up to MaxWords words, from the empty
\* name
InitClassify ==
    /\ batches = <<>>
    /\ today = 0
    /\ last = NoCall
    /\ txn = [w \in Workers |-> Idle]
    /\ base = <<>>
    /\ NoLog
    /\ calc = ClassifyCall(<<>>, 0)

NextClassify == Classify

SpecClassify == InitClassify /\ [][NextClassify]_vars

\* ------------------------------------------------------ one recommendation
\* the ingredient names of the recommendation runs, one of each category
IngredientNames ==
    {<<"C", "h", "i", "c", "k", "e", "n", " ", "B", "r", "e", "a", "s", "t">>,
     <<"T", "o", "m", "a", "t", "o">>,
     <<"C", "h", "e", "d", "d", "a", "r">>,
     <<"R", "i", "c", "e">>,
     <<"B", "e", "e", "r">>}

\* a row of an ingredient with its forecast
EngineRow(ingredient_name, inventory_start, avg_daily_usage_7d, expm1, bias_term) ==
    [ingredient_id |-> 1, ingredient_name |-> ingredient_name,
     inventory_start |-> inventory_start,
     avg_daily_usage_7d |-> avg_daily_usage_7d,
     features |-> 1, expm1 |-> expm1, bias_term |-> bias_term,
     pred_mean |-> predict(expm1, bias_term)]

\* the values of the row of a run on one ingredient
InventoryValues == {-1, 0, 10, MaxInventory}
UsageValues7d == {NULL} \cup ((-1)..MaxUsage)
Expm1Values == 0..MaxPredicted
BiasValues == (-MaxBias)..MaxBias

\* the next run on one ingredient, with one value of its row changed
RecommendOne ==
    /\ LET row == calc.grouped[1]
       IN \/ \E name \in IngredientNames :
               calc' = GenerateCall(<<EngineRow(name, row.inventory_start,
                           row.avg_daily_usage_7d, row.expm1, row.bias_term)>>)
          \/ \E v \in InventoryValues :
               calc' = GenerateCall(<<EngineRow(row.ingredient_name, v,
                           row.avg_daily_usage_7d, row.expm1, row.bias_term)>>)
          \/ \E u \in UsageValues7d :
               calc' = GenerateCall(<<EngineRow(row.ingredient_name, row.inventory_start,
                           u, row.expm1, row.bias_term)>>)
          \/ \E x \in Expm1Values :
               calc' = GenerateCall(<<EngineRow(row.ingredient_name, row.inventory_start,
                           row.avg_daily_usage_7d, x, row.bias_term)>>)
          \/ \E b \in BiasValues :
               calc' = GenerateCall(<<EngineRow(row.ingredient_name, row.inventory_start,
                           row.avg_daily_usage_7d, row.expm1, b)>>)
    /\ UNCHANGED <<batches, today, last, txn, base, logs, posted, reply, post>>

\* runs on one ingredient, from a run on an empty stock of rice that is not
\* used
InitRecommend ==
    /\ batches = <<>>
    /\ today = 0
    /\ last = NoCall
    /\ txn = [w \in Workers |-> Idle]
    /\ base = <<>>
    /\ NoLog
    /\ calc = GenerateCall(<<EngineRow(<<"R", "i", "c", "e">>, 0, 0, 0, 0)>>)

NextRecommend == RecommendOne

SpecRecommend == InitRecommend /\ [][NextRecommend]_vars

\* ------------------------------------------------------------ the ranking
\* the rows of the runs on several ingredients: <<name, inventory_start,
\* avg_daily_usage_7d, feature rows, forecast>>
RankRows ==
    {<<<<"C", "h", "i", "c", "k", "e", "n", " ", "B", "r", "e", "a", "s", "t">>, 10, 6, 1, 10>>,
     <<<<"T", "o", "m", "a", "t", "o">>, 4, 2, 1, 1>>,
     <<<<"R", "i", "c", "e">>, 10, 0, 1, 2>>,
     <<<<"R", "i", "c", "e">>, 10, 1, 1, 12>>,
     <<<<"R", "i", "c", "e">>, 10, 1, 1, 10>>,
     <<<<"C", "h", "e", "d", "d", "a", "r">>, 10, 1, 1, 20>>,
     <<<<"C", "h", "e", "d", "d", "a", "r">>, 10, NULL, 1, 5>>,
     <<<<"B", "e", "e", "r">>, 10, 1, 0, 5>>}

\* the row of ingredient `ingredient_id`
RankRow(ingredient_id, r) ==
    [ingredient_id |-> ingredient_id, ingredient_name |-> r[1],
     inventory_start |-> r[2], avg_daily_usage_7d |-> r[3],
     features |-> r[4], expm1 |-> r[5], bias_term |-> 0,
     pred_mean |-> predict(r[5], 0)]

\* the next run, on the rows of the last one and one more ingredient
RankAll ==
    /\ Len(calc.grouped) < MaxRows
    /\ \E r \in RankRows :
          calc' = GenerateCall(Append(calc.grouped, RankRow(Len(calc.grouped) + 1, r)))
    /\ UNCHANGED <<batches, today, last, txn, base, logs, posted, reply, post>>

\* runs on up to MaxRows ingredients, from the run on no ingredient
InitRank ==
    /\ batches = <<>>
    /\ today = 0
    /\ last = NoCall
    /\ txn = [w \in Workers |-> Idle]
    /\ base = <<>>
    /\ NoLog
    /\ calc = GenerateCall(<<>>)

NextRank == RankAll

SpecRank == InitRank /\ [][NextRank]_vars

\* ----------------------------------------- concurrent calls of fifo_deduct
\* receipts for (restaurant 1, ingredient 7) before the calls begin
TxnReceive ==
    /\ \A w \in Workers : txn[w].pc = "idle"
    /\ add_batch(1, 7, MaxQty, NULL, NULL)

TxnBegin == \E w \in Workers, q \in 1..(MaxQty + 1) : Begin(w, 1, 7, q)

TxnStep == \E w \in Workers : Select(w) \/ Update(w) \/ Commit(w) \/ Fail(w)

InitTxn ==
    /\ batches = <<>>
    /\ today = 1
    /\ last = NoCall
    /\ txn = [w \in Workers |-> Idle]
    /\ base = <<>>
    /\ NoLog
    /\ calc = NoCalc

NextTxn == TxnReceive \/ TxnBegin \/ TxnStep

SpecTxn == InitTxn /\ [][NextTxn]_vars

\* ====================================================================
\* Properties of the ledger
\* ====================================================================
RECURSIVE SumRemaining(_, _)
SumRemaining(bs, S) ==
    IF S = {} THEN 0
    ELSE LET k == CHOOSE x \in S : TRUE
         IN bs[k].qty_remaining + SumRemaining(bs, S \ {k})

RECURSIVE SumReceived(_, _)
SumReceived(bs, S) ==
    IF S = {} THEN 0
    ELSE LET k == CHOOSE x \in S : TRUE
         IN bs[k].qty_received + SumReceived(bs, S \ {k})

\* the batches of one (restaurant, ingredient), of every status
PairIds(bs, r, i) ==
    {k \in DOMAIN bs : bs[k].restaurant_id = r /\ bs[k].ingredient_id = i}

\* the active batches of one (restaurant, ingredient), stated from the claim
ActiveOf(bs, r, i) == {k \in PairIds(bs, r, i) : bs[k].status = "active"}

\* what has left the batches of a pair: received minus remaining
Consumed(bs, r, i) ==
    SumReceived(bs, PairIds(bs, r, i)) - SumRemaining(bs, PairIds(bs, r, i))

\* the step is a call of fifo_deduct / mark_expired / an accepted add_batch
\* (every action writes `last`, so last' names the call of the step)
IsDeductStep == last'.op = "fifo_deduct"
IsSweepStep == last'.op = "mark_expired"
IsReceiveStep == last'.op = "add_batch" /\ last'.outcome = "201"

\* C1 (as claimed): every ConsumeFIFO call takes exactly its total_deducted
\* out of the batches of its pair, so that the sum of quantity_remaining stays
\* the sum of quantity_received minus the sum of the calls' total_deducted,
\* and it returns total_deducted + shortfall = quantity_requested.
C1_Conservation ==
    [][IsDeductStep =>
        /\ Consumed(batches', last'.restaurant_id, last'.ingredient_id)
             = Consumed(batches, last'.restaurant_id, last'.ingredient_id)
               + last'.total_deducted
        /\ last'.total_deducted + last'.shortfall = last'.qty]_vars

\* the same for the calls with a positive quantity only
ConservationOfPositiveCalls ==
    [][(IsDeductStep /\ last'.qty > 0) =>
        /\ Consumed(batches', last'.restaurant_id, last'.ingredient_id)
             = Consumed(batches, last'.restaurant_id, last'.ingredient_id)
               + last'.total_deducted
        /\ last'.total_deducted + last'.shortfall = last'.qty]_vars

\* a step other than a deduction leaves the consumed quantity of every pair
ConservationOfOtherCalls ==
    [][~IsDeductStep =>
        \A r \in RestaurantIds, i \in IngredientIds :
            Consumed(batches', r, i) = Consumed(batches, r, i)]_vars

\* the order of the claim: expiration ascending, none last, then received
\* date ascending
C2_Precedes(a, b) ==
    LET ea == a.expiration_date
        eb == b.expiration_date
    IN IF ea = NULL /\ eb = NULL THEN a.received_date < b.received_date
       ELSE IF ea = NULL THEN FALSE
       ELSE IF eb = NULL THEN TRUE
       ELSE ea < eb \/ (ea = eb /\ a.received_date < b.received_date)

\* C2: within one ConsumeFIFO call a batch is deducted from only if every
\* active batch that precedes it (expiration ascending, none last, then
\* received date ascending) ends the call with quantity_remaining = 0, and
\* the batches are visited in that order.
C2_FifoOrder ==
    [][IsDeductStep =>
        LET S == ActiveOf(batches, last'.restaurant_id, last'.ingredient_id)
            aff == last'.affected
        IN /\ \A a, b \in S :
                (/\ C2_Precedes(batches[a], batches[b])
                 /\ batches'[b].qty_remaining < batches[b].qty_remaining)
                => batches'[a].qty_remaining = 0
           /\ \A m, n \in DOMAIN aff :
                m < n => ~C2_Precedes(batches[aff[n].batch_id], batches[aff[m].batch_id])
           /\ \A n \in DOMAIN aff : aff[n].batch_id \in S]_vars

\* C2 witness: the three batches of the example were consumed 3rd (day 3),
\* 1st (day 5), 2nd (no expiration)
C2_Witness ==
    /\ last.op = "fifo_deduct"
    /\ Len(batches) = 3
    /\ batches[1].expiration_date = 5 /\ batches[2].expiration_date = NULL
    /\ batches[3].expiration_date = 3
    /\ Len(last.affected) = 3
    /\ last.affected[1].batch_id = 3
    /\ last.affected[2].batch_id = 1
    /\ last.affected[3].batch_id = 2

\* C3: a ConsumeFIFO call with a positive quantity against active batches of
\* total quantity A returns normally with total_deducted = min(requested, A)
\* and shortfall = max(0, requested - A); 15 against 10 and 3 gives 13 and 2
\* and depletes both batches.
C3_Shortfall ==
    [][(IsDeductStep /\ last'.qty > 0) =>
        LET S == ActiveOf(batches, last'.restaurant_id, last'.ingredient_id)
            A == SumRemaining(batches, S)
        IN /\ last'.outcome = "ok"
           /\ last'.total_deducted = (IF last'.qty <= A THEN last'.qty ELSE A)
           /\ last'.shortfall = (IF last'.qty - A >= 0 THEN last'.qty - A ELSE 0)
           /\ (/\ batches = ShortfallExampleLedger
               /\ last'.restaurant_id = 1 /\ last'.ingredient_id = 7
               /\ last'.qty = 15) =>
                 /\ last'.total_deducted = 13
                 /\ last'.shortfall = 2
                 /\ batches'[1].status = "depleted"
                 /\ batches'[2].status = "depleted"]_vars

\* C3 witness: 15 was requested of the batches of 10 and 3
C3_Witness ==
    /\ last.op = "fifo_deduct" /\ last.qty = 15 /\ last.outcome = "ok"
    /\ last.total_deducted = 13 /\ last.shortfall = 2
    /\ Len(batches) = 2
    /\ batches[1].qty_received = 10 /\ batches[1].status = "depleted"
    /\ batches[2].qty_received = 3 /\ batches[2].status = "depleted"

\* C4: every batch has 0 <= quantity_remaining <= quantity_received.
C4_QuantityBounds ==
    \A k \in DOMAIN batches :
        /\ 0 <= batches[k].qty_remaining
        /\ batches[k].qty_remaining <= batches[k].qty_received

\* C4 witness: a consumption asked for more than there was, of a ledger with
\* a depleted and an expired batch
C4_Witness ==
    /\ last.op = "fifo_deduct" /\ last.shortfall > 0 /\ last.total_deducted > 0
    /\ \E k \in DOMAIN batches : batches[k].status = "depleted"
    /\ \E k \in DOMAIN batches : batches[k].status = "expired"

\* C7 (as claimed): ConsumeFIFO with a quantity <= 0 is rejected and gives no
\* normal result.
C7_NonPositiveRejected ==
    (last.op = "fifo_deduct" /\ last.qty <= 0) => last.outcome /= "ok"

\* C8: SweepExpired(restaurant) sets to expired exactly the active batches of
\* the restaurant whose expiration date is before the current date and
\* changes nothing else; right after a sweep of a restaurant a second sweep of
\* it changes no batch.
C8_SweepExact ==
    [][IsSweepStep =>
        /\ DOMAIN batches' = DOMAIN batches
        /\ \A k \in DOMAIN batches :
              IF /\ batches[k].restaurant_id = last'.restaurant_id
                 /\ batches[k].status = "active"
                 /\ batches[k].expiration_date /= NULL
                 /\ batches[k].expiration_date < today
              THEN batches'[k] = [batches[k] EXCEPT !.status = "expired"]
              ELSE batches'[k] = batches[k]
        /\ (last.op = "mark_expired" /\ last.restaurant_id = last'.restaurant_id)
              => batches' = batches]_vars

\* C8 witness: a sweep expired a batch and left an active batch of the other
\* restaurant that is past its date, and a batch that expires today
C8_Witness ==
    /\ last.op = "mark_expired"
    /\ \E k \in DOMAIN batches :
          /\ batches[k].restaurant_id = last.restaurant_id
          /\ batches[k].status = "expired"
    /\ \E k \in DOMAIN batches :
          /\ batches[k].status = "active"
          /\ batches[k].expiration_date /= NULL
          /\ \/ batches[k].restaurant_id /= last.restaurant_id
                /\ batches[k].expiration_date < today
             \/ batches[k].restaurant_id = last.restaurant_id
                /\ batches[k].expiration_date = today

\* C9 (as claimed): SweepExpired returns one entry for every batch it
\* transitioned to expired.
C9_SweepReturnsAll ==
    [][IsSweepStep =>
        Len(last'.returned) =
            Cardinality({k \in DOMAIN batches :
                            /\ batches[k].status = "active"
                            /\ batches'[k].status = "expired"})]_vars

\* C10: an accepted Receive of q > 0 appends exactly one batch, active, with
\* quantity_remaining = quantity_received = q, received today when no
\* received date is given, and leaves every existing batch as it was.
C10_Receive ==
    [][IsReceiveStep =>
        LET new == batches'[Len(batches')]
        IN /\ last'.qty > 0
           /\ Len(batches') = Len(batches) + 1
           /\ \A k \in DOMAIN batches : batches'[k] = batches[k]
           /\ new.restaurant_id = last'.restaurant_id
           /\ new.ingredient_id = last'.ingredient_id
           /\ new.status = "active"
           /\ new.qty_received = last'.qty
           /\ new.qty_remaining = last'.qty
           /\ new.received_date =
                 (IF last'.received_date = NULL THEN today ELSE last'.received_date)
           /\ last'.returned = <<new>>]_vars

\* C10 witness: a batch was received on day 2 without a received date, into
\* a ledger that held a batch already
C10_Witness ==
    /\ last.op = "add_batch" /\ last.outcome = "201"
    /\ last.received_date = NULL
    /\ today = 2
    /\ Len(batches) = 2
    /\ batches[2].received_date = 2
    /\ batches[2].status = "active"

\* C5: a step of a ConsumeFIFO call other than its commit changes no
\* committed batch; a call that fails raises to its caller, and every batch
\* it had selected is committed with the quantity and status it was read
\* with, whatever the call had updated before it failed.
C5_AllOrNothing ==
    [][\A w \in Workers :
        (txn'[w] /= txn[w] /\ ~(txn'[w].pc = "done" /\ txn'[w].outcome = "ok")) =>
            /\ batches' = batches
            /\ txn[w].pc /= "idle" =>
                  \/ txn'[w].pc \in {"select", "loop"}
                  \/ /\ txn'[w].pc = "done" /\ txn'[w].outcome = "raised"
                     /\ \A n \in DOMAIN txn[w].st.rows :
                          LET row == txn[w].st.rows[n]
                          IN /\ batches'[row.batch_id].qty_remaining = row.qty_remaining
                             /\ batches'[row.batch_id].status = "active"]_vars

\* C5 witness: a call failed after it had updated batches, and no batch has
\* changed since the calls began
C5_Witness ==
    \E w \in Workers :
        /\ txn[w].pc = "done" /\ txn[w].outcome = "raised"
        /\ txn[w].updates >= 2
        /\ batches = base

\* the results fifo_deduct can give when it runs alone on the rows bs
SerialOutcomes(bs, r, i, q) ==
    {LET st == RunLoop(LoopInit(Fetched(bs, o), q))
     IN [batches |-> Committed(bs, st.affected),
         affected |-> st.affected,
         total_deducted |-> TotalDeducted(q, st.remaining),
         shortfall |-> Shortfall(st.remaining)] : o \in FifoOrders(bs, ActiveIds(bs, r, i))}

\* the rows after the calls of the workers W have run one after the other, in
\* some order, from the rows bs, each returning what it did return
RECURSIVE SerialFinals(_, _)
SerialFinals(bs, W) ==
    IF W = {} THEN {bs}
    ELSE UNION {
           UNION {SerialFinals(x.batches, W \ {w}) :
                    x \in {y \in SerialOutcomes(bs, txn[w].restaurant_id,
                                                txn[w].ingredient_id, txn[w].qty) :
                             /\ y.affected = txn[w].affected
                             /\ y.total_deducted = txn[w].total_deducted
                             /\ y.shortfall = txn[w].shortfall}}
           : w \in W}

RECURSIVE SumDeducted(_)
SumDeducted(W) ==
    IF W = {} THEN 0
    ELSE LET w == CHOOSE x \in W : TRUE
         IN txn[w].total_deducted + SumDeducted(W \ {w})

Returned == {w \in Workers : txn[w].pc = "done" /\ txn[w].outcome = "ok"}

\* C6: whatever the interleaving of the concurrent ConsumeFIFO calls on one
\* (restaurant, ingredient), the committed batches and the results of the
\* calls that have returned are those of the calls run one after the other
\* in some order, and together they deducted no more than was available.
C6_Serialized ==
    (\E w \in Workers : txn[w].pc /= "idle") =>
        /\ batches \in SerialFinals(base, Returned)
        /\ SumDeducted(Returned) <= SumRemaining(base, ActiveOf(base, 1, 7))

\* C6 witness: all calls have returned, one of them began while another was
\* in progress, each deducted something and one fell short
C6_Witness ==
    /\ \A w \in Workers : txn[w].pc = "done" /\ txn[w].outcome = "ok"
    /\ \A w \in Workers : txn[w].total_deducted > 0
    /\ \E w \in Workers : txn[w].overlapped
    /\ \E w \in Workers : txn[w].shortfall > 0

\* ------------------------------------------------------------ batch lifecycle
\* C11: over Receive, ConsumeFIFO and SweepExpired calls no batch is removed,
\* quantity_received never changes, quantity_remaining never increases, the
\* status only moves active -> depleted (by consumption) or active -> expired
\* (by the sweep), and a depleted or expired batch is never modified again.
C11_Lifecycle ==
    [][/\ Len(batches') >= Len(batches)
       /\ \A k \in DOMAIN batches :
            /\ batches'[k].qty_received = batches[k].qty_received
            /\ batches'[k].qty_remaining <= batches[k].qty_remaining
            /\ \/ batches'[k].status = batches[k].status
               \/ /\ batches[k].status = "active"
                  /\ batches'[k].status = "depleted"
                  /\ IsDeductStep
               \/ /\ batches[k].status = "active"
                  /\ batches'[k].status = "expired"
                  /\ IsSweepStep
            /\ batches[k].status /= "active" => batches'[k] = batches[k]]_vars

\* C11 witness: with one batch depleted and one expired with quantity left,
\* a ConsumeFIFO call for a positive quantity found nothing to take
C11_Witness ==
    /\ \E k \in DOMAIN batches : batches[k].status = "depleted"
    /\ \E k \in DOMAIN batches :
          batches[k].status = "expired" /\ batches[k].qty_remaining > 0
    /\ last.op = "fifo_deduct" /\ last.qty > 0
    /\ last.shortfall = last.qty

\* ------------------------------------------------------------ the daily log
\* the key of a log row
KeyOf(x) == <<x.restaurant_id, x.ingredient_id, x.log_date>>

\* C12: every log row has quantity_used = the sum of the usage posted for its
\* (restaurant, ingredient, day), on_order_quantity = the sum of the restocks
\* posted, and inventory_end = inventory_start + restocks - usage, whatever
\* the number and order of the posts of the day.
C12_Balance ==
    \A x \in logs :
        /\ x.qty_used = posted[KeyOf(x)].usage
        /\ x.on_order_qty = posted[KeyOf(x)].restock
        /\ x.inventory_end =
              x.inventory_start + posted[KeyOf(x)].restock - posted[KeyOf(x)].usage

\* C12 witness: a day with at least two usage posts and a restock, on a
\* balance carried from an earlier day
C12_Witness ==
    \E x \in logs :
        /\ posted[KeyOf(x)].posts >= 3
        /\ posted[KeyOf(x)].restock > 0
        /\ x.qty_used > MaxQty
        /\ x.inventory_start /= 0

\* the step is an accepted post of usage or of a restock
IsPostStep ==
    /\ reply' /= reply
    /\ reply'.op \in {"post_usage", "post_restock"}
    /\ reply'.status = 201

\* the rows of the same pair dated before the day d
EarlierRows(rows, r, i, d) ==
    {y \in rows : y.restaurant_id = r /\ y.ingredient_id = i /\ y.log_date < d}

\* C13: the first post of a day for a (restaurant, ingredient) creates the
\* day's row with inventory_start = the inventory_end of the most recent
\* earlier-dated row of the pair, whatever its day, or 0 when there is none;
\* no post changes the inventory_start of a row that exists.
C13_CarryForward ==
    [][IsPostStep =>
        LET r == reply'.restaurant_id
            i == reply'.ingredient_id
            earlier == EarlierRows(logs, r, i, today)
            new == RowsOf(logs', r, i, today)
        IN /\ \A x \in logs : \E y \in logs' :
                 KeyOf(y) = KeyOf(x) /\ y.inventory_start = x.inventory_start
           /\ RowsOf(logs, r, i, today) = {} =>
                 /\ Cardinality(new) = 1
                 /\ \A x \in new :
                      IF earlier = {} THEN x.inventory_start = 0
                      ELSE \E y \in earlier :
                             /\ \A z \in earlier : z.log_date <= y.log_date
                             /\ x.inventory_start = y.inventory_end]_vars

\* C13 witness: a row of day 0, none of day 1, and the first post of day 2
\* has seeded its row from the end of day 0, which is not 0
C13_Witness ==
    /\ today = 2
    /\ reply.op \in {"post_usage", "post_restock"} /\ reply.status = 201
    /\ reply.restaurant_id = 1
    /\ posted[<<1, 7, 2>>].posts = 1
    /\ RowsOf(logs, 1, 7, 1) = {}
    /\ RowsOf(logs, 2, 7, 1) /= {}
    /\ \E y \in RowsOf(logs, 1, 7, 0), x \in RowsOf(logs, 1, 7, 2) :
          y.inventory_end /= 0 /\ x.inventory_start = y.inventory_end

\* C14: whatever the interleaving of concurrent PostUsage and PostRestock
\* calls on one (restaurant, ingredient, day), two calls that both found no
\* row for the day included, there is exactly one row for a day with posts
\* and its quantity_used, on_order_quantity and inventory_end have every
\* posted quantity exactly once.
C14_NoLostUpdate ==
    \A k \in LogKeys :
        LET rows == RowsOf(logs, k[1], k[2], k[3])
        IN IF posted[k].posts = 0 THEN rows = {}
           ELSE /\ Cardinality(rows) = 1
                /\ \A x \in rows :
                     /\ x.qty_used = posted[k].usage
                     /\ x.on_order_qty = posted[k].restock
                     /\ x.inventory_start - x.inventory_end =
                           posted[k].usage - posted[k].restock

\* C14 witness: a usage post and a restock post of one day that both began
\* when the day had no row have both returned
C14_Witness ==
    \E v, w \in Workers :
        /\ v /= w
        /\ post[v].pc = "done" /\ post[v].outcome = "ok" /\ post[v].fresh
        /\ post[w].pc = "done" /\ post[w].outcome = "ok" /\ post[w].fresh
        /\ post[v].op = "post_usage" /\ post[w].op = "post_restock"
        /\ post[v].log_date = post[w].log_date
        /\ posted[<<1, 7, post[v].log_date>>].posts = 2

\* a quantity that is missing, zero or negative
C15_Bad(qty) == qty = NULL \/ qty <= 0

\* C15: Receive, PostUsage and PostRestock with a missing, zero or negative
\* quantity fail with an invalid-quantity error and change nothing: no batch
\* is created or changed, no log row is created or modified, and no FIFO
\* deduction is attempted.
C15_InvalidQuantity ==
    [][/\ (last'.op = "add_batch" /\ C15_Bad(last'.qty)) =>
            /\ last'.outcome = "400"
            /\ batches' = batches /\ logs' = logs /\ posted' = posted
       /\ (/\ last'.op \in {"post_usage", "post_restock", "fifo_deduct"}
           /\ C15_Bad(reply'.qty)) =>
            /\ reply'.status = 400
            /\ last'.op /= "fifo_deduct"
            /\ batches' = batches /\ logs' = logs /\ posted' = posted]_vars

\* C15 witness: with an active batch and a log row there, a usage post of
\* quantity 0 was refused
C15_Witness ==
    /\ reply.op = "post_usage" /\ reply.qty = 0 /\ reply.status = 400
    /\ last.op = "post_usage"
    /\ logs /= {}
    /\ \E k \in DOMAIN batches : batches[k].status = "active"

\* C16: a usage post commits its log row first; if the FIFO deduction that
\* follows fails, the row keeps the posted usage, no batch is changed and the
\* request still succeeds, with no FIFO result in its reply.
C16_BestEffortFifo ==
    [][(last'.op = "fifo_deduct" /\ reply'.op = "post_usage") =>
        LET r == reply'.restaurant_id
            i == reply'.ingredient_id
            before == RowsOf(logs, r, i, today)
            after == RowsOf(logs', r, i, today)
        IN /\ \E y \in after :
                 /\ reply'.row = <<y>>
                 /\ IF before = {} THEN y.qty_used = reply'.qty
                    ELSE \E x \in before : y.qty_used = x.qty_used + reply'.qty
           /\ reply'.status = 201
           /\ last'.outcome = "raised" =>
                 batches' = batches /\ reply'.fifo = <<>>]_vars

\* C16 witness: with an active batch to take from, the deduction of a usage
\* post failed; the post was answered 201 with its log row and no FIFO result
C16_Witness ==
    /\ last.op = "fifo_deduct" /\ last.outcome = "raised"
    /\ reply.op = "post_usage" /\ reply.status = 201 /\ reply.fifo = <<>>
    /\ \E x \in RowsOf(logs, 1, 7, today) : reply.row = <<x>> /\ x.qty_used > reply.qty
    /\ \E k \in DOMAIN batches :
          batches[k].status = "active" /\ batches[k].qty_remaining > 0

\* ------------------------------------------------------------ the forecasts
\* C17 (as claimed): in the combined list of Merge(restaurant) every
\* ingredient appears at most once, and an ingredient with a high-confidence
\* entry has that entry in the list and never the low-confidence fallback.
C17_MergePrecedence ==
    calc.op = "get_all_predictions" =>
        /\ \A m, n \in DOMAIN calc.all :
              calc.all[m].ingredient_id = calc.all[n].ingredient_id => m = n
        /\ \A m \in DOMAIN calc.xgboost : \A n \in DOMAIN calc.all :
              calc.all[n].ingredient_id = calc.xgboost[m].ingredient_id
                  => calc.all[n].confidence = "high"

\* the combined list has every ingredient of either tier, and an ingredient
\* of one tier only appears once
MergeOfDisjointTiers ==
    calc.op = "get_all_predictions" =>
        /\ Len(calc.all) = Len(calc.xgboost) + Len(calc.simple)
        /\ (\A m \in DOMAIN calc.xgboost, n \in DOMAIN calc.simple :
                calc.xgboost[m].ingredient_id /= calc.simple[n].ingredient_id)
            => \A m, n \in DOMAIN calc.all :
                 calc.all[m].ingredient_id = calc.all[n].ingredient_id => m = n

\* ------------------------------------------------------------ the priority
\* C19 (as claimed): the priority is CRITICAL whenever days_until_spoilage < 1
\* or days_until_stockout < 1, for every category and both values of
\* restock_needed, and is another priority only when neither holds.
C19_CriticalFirst ==
    calc.op = "determine_priority" =>
        (calc.priority = "CRITICAL" <=>
            (calc.days_until_spoilage < DaysOf(1) \/ calc.days_until_stockout < DaysOf(1)))

\* the same when a restock is needed or spoilage is within 3 days
CriticalFirstUnlessLow ==
    (/\ calc.op = "determine_priority"
     /\ (calc.restock_needed \/ calc.days_until_spoilage <= DaysOf(3))) =>
        (calc.priority = "CRITICAL" <=>
            (calc.days_until_spoilage < DaysOf(1) \/ calc.days_until_stockout < DaysOf(1)))

\* CRITICAL > HIGH > MEDIUM > LOW
C20_Severity(priority) ==
    CASE priority = "CRITICAL" -> 3
      [] priority = "HIGH" -> 2
      [] priority = "MEDIUM" -> 1
      [] priority = "LOW" -> 0

\* C20: for a fixed category, fixed days_until_spoilage and restock_needed =
\* true, fewer days_until_stockout never give a less severe priority.
C20_Monotone ==
    [][(/\ calc.restock_needed /\ calc'.restock_needed
        /\ calc'.category = calc.category
        /\ calc'.days_until_spoilage = calc.days_until_spoilage
        /\ calc'.days_until_stockout <= calc.days_until_stockout)
       => C20_Severity(calc'.priority) >= C20_Severity(calc.priority)]_vars

\* C20 witness: with a restock needed, a dairy item seven days from spoilage
\* and half a day short of five days from stockout is HIGH
C20_Witness ==
    /\ calc.op = "determine_priority"
    /\ calc.restock_needed /\ calc.category = "dairy"
    /\ calc.days_until_spoilage = DaysOf(7)
    /\ calc.days_until_stockout = DaysOf(5) - 1
    /\ calc.priority = "HIGH"

\* --------------------------------------------------------- the categories
\* the first category, in the order of the claim, with a keyword in the
\* lower-cased name
C18_Claimed(name) ==
    LET s == LowerCase(name)
    IN IF AnyKeyword(produce_keywords, s) THEN "produce"
       ELSE IF AnyKeyword(protein_keywords, s) THEN "protein"
       ELSE IF AnyKeyword(dairy_keywords, s) THEN "dairy"
       ELSE IF AnyKeyword(non_perishable_keywords, s) THEN "non_perishable"
       ELSE IF AnyKeyword(alcohol_dry_keywords, s) THEN "alcohol_dry"
       ELSE "non_perishable"

\* C18 (as claimed): Classify returns the first of produce, protein, dairy,
\* non-perishable, alcohol/dry-goods that has a keyword in the lower-cased
\* name, so a name with a non-perishable and an alcohol/dry keyword (and none
\* of the first three) is non-perishable, as is a name with no keyword.
C18_ClassifyOrder ==
    calc.op = "classify_ingredient" =>
        calc.category = C18_Claimed(calc.ingredient_name)

\* the same but for names with both a non-perishable and an alcohol/dry
\* keyword and none of produce, protein, dairy: those are alcohol/dry-goods
ClassifyOrderOfTheCode ==
    calc.op = "classify_ingredient" =>
        LET s == LowerCase(calc.ingredient_name)
        IN IF /\ AnyKeyword(non_perishable_keywords, s)
              /\ AnyKeyword(alcohol_dry_keywords, s)
              /\ ~AnyKeyword(produce_keywords, s)
              /\ ~AnyKeyword(protein_keywords, s)
              /\ ~AnyKeyword(dairy_keywords, s)
           THEN calc.category = "alcohol_dry"
           ELSE calc.category = C18_Claimed(calc.ingredient_name)

\* ------------------------------------------------ early stop and depletion
\* what the rows before position n of the result took
RECURSIVE DeductedBefore(_, _)
DeductedBefore(affected, n) ==
    IF n <= 1 THEN 0
    ELSE affected[n - 1].qty_deducted + DeductedBefore(affected, n - 1)

\* the call of the step visited its batches as the claim says
EarlyStop ==
    LET aff == last'.affected
        o == last'.order
        S == ActiveOf(batches, last'.restaurant_id, last'.ingredient_id)
        hit == {aff[n].batch_id : n \in DOMAIN aff}
    IN /\ Len(aff) <= Len(o)
       \* each visited batch loses min(remaining_requested, quantity_remaining)
       /\ \A n \in DOMAIN aff :
             LET k == aff[n].batch_id
                 remaining_requested == last'.qty - DeductedBefore(aff, n)
             IN /\ k = o[n]
                /\ aff[n].qty_deducted
                     = Min(remaining_requested, batches[k].qty_remaining)
                /\ batches'[k].qty_remaining
                     = batches[k].qty_remaining - aff[n].qty_deducted
       \* every affected batch but the last is emptied and depleted
       /\ \A n \in DOMAIN aff :
             n < Len(aff) =>
                /\ batches'[aff[n].batch_id].qty_remaining = 0
                /\ batches'[aff[n].batch_id].status = "depleted"
       \* at most one stays active, with a smaller positive quantity
       /\ Cardinality({k \in hit : batches'[k].status = "active"}) <= 1
       /\ \A k \in hit :
             /\ batches'[k].status \in {"active", "depleted"}
             /\ batches'[k].status = "active" =>
                   /\ batches'[k].qty_remaining > 0
                   /\ batches'[k].qty_remaining < batches[k].qty_remaining
             /\ batches'[k].status = "depleted" => batches'[k].qty_remaining = 0
       \* the batches after the point where the request is satisfied, and
       \* every other row, are unchanged
       /\ \A n \in DOMAIN o : n > Len(aff) => batches'[o[n]] = batches[o[n]]
       /\ \A k \in DOMAIN batches : k \notin hit => batches'[k] = batches[k]
       /\ DOMAIN batches' = DOMAIN batches
       \* the deducted amounts sum to total_deducted
       /\ DeductedBefore(aff, Len(aff) + 1) = last'.total_deducted

\* C26 (as claimed): in every ConsumeFIFO call each visited batch loses
\* min(remaining_requested, quantity_remaining); every affected batch except
\* possibly the last ends with quantity_remaining = 0 and status depleted, at
\* most one affected batch stays active (with a strictly smaller positive
\* quantity), every batch ordered after the point where the request is
\* satisfied is unchanged, and the per-batch deducted amounts sum to
\* total_deducted.
C26_EarlyStop == [][IsDeductStep => EarlyStop]_vars

\* the same for the calls with a positive quantity only
EarlyStopOfPositiveCalls == [][(IsDeductStep /\ last'.qty > 0) => EarlyStop]_vars

\* a call was satisfied by its second batch, which stays active, or by its
\* first with another batch left unvisited
EarlyStopReached ==
    /\ last.op = "fifo_deduct"
    /\ Len(last.affected) >= 1
    /\ Len(last.order) = 2
    /\ batches[last.affected[Len(last.affected)].batch_id].status = "active"

\* -------------------------------------------- consumption of past-date batches
\* the batches of a pair whose expiration date is before the current date
PastDate(bs, r, i) ==
    {k \in PairIds(bs, r, i) :
        bs[k].expiration_date /= NULL /\ bs[k].expiration_date < today}

\* C27: ConsumeFIFO selects the batches of its pair by status alone: an
\* active batch whose expiration date is before the current date is selected,
\* comes before every unexpired batch, and is deducted from unless the
\* request is used up before the walk reaches it; a batch that is not active
\* is left alone, a past-date batch that still holds a quantity is passed over
\* by a call that goes on to unexpired batches or ends short only when its
\* status is expired, and only SweepExpired makes a batch expired.
C27_StatusAlone ==
    [][/\ IsDeductStep =>
            LET r == last'.restaurant_id
                i == last'.ingredient_id
                S == ActiveOf(batches, r, i)
                Past == PastDate(batches, r, i)
                aff == last'.affected
                o == last'.order
                hit == {aff[n].batch_id : n \in DOMAIN aff}
                wentOn == last'.shortfall > 0 \/ \E k \in hit : k \notin Past
            IN /\ {o[n] : n \in DOMAIN o} = S
               /\ \A m, n \in DOMAIN o :
                     (o[m] \in Past /\ o[n] \notin Past) => m < n
               /\ \A m, n \in DOMAIN aff :
                     (aff[m].batch_id \in Past /\ aff[n].batch_id \notin Past) => m < n
               /\ \A k \in S \cap Past :
                     /\ k \notin hit => ~wentOn
                     /\ k \in hit =>
                           batches'[k].qty_remaining < batches[k].qty_remaining
               /\ \A k \in PairIds(batches, r, i) \ S : batches'[k] = batches[k]
               /\ \A k \in Past :
                     (batches[k].qty_remaining > 0 /\ k \notin hit /\ wentOn)
                        => batches[k].status = "expired"
       /\ \A k \in DOMAIN batches :
             (batches'[k].status = "expired" /\ batches[k].status /= "expired")
                => IsSweepStep]_vars

\* C27 witness: a call deducted from an active batch past its date while an
\* unexpired active batch of the pair was left for later
C27_Witness ==
    /\ last.op = "fifo_deduct"
    /\ Len(last.affected) >= 1
    /\ LET k == last.affected[1].batch_id
       IN /\ batches[k].expiration_date /= NULL
          /\ batches[k].expiration_date < today
          /\ batches[k].qty_remaining < batches[k].qty_received
    /\ \E k \in ActiveOf(batches, last.restaurant_id, last.ingredient_id) :
          \/ batches[k].expiration_date = NULL
          \/ batches[k].expiration_date >= today

\* ------------------------------------------------------ clamping asymmetry
\* the step is an accepted post of usage
IsUsagePostStep ==
    /\ reply' /= reply
    /\ reply'.op = "post_usage"
    /\ reply'.status = 201

\* the balance of the day of a pair: the inventory_end of the day's row, or
\* what the day starts from when it has no row yet
BalanceOf(rows, r, i, d) ==
    LET row == RowsOf(rows, r, i, d)
        earlier == EarlierRows(rows, r, i, d)
    IN IF row /= {} THEN (CHOOSE x \in row : TRUE).inventory_end
       ELSE IF earlier = {} THEN 0
       ELSE (CHOOSE y \in earlier : \A z \in earlier : z.log_date <= y.log_date).inventory_end

\* the log side of a usage post of q: the balance of the day goes down by q
LogTakesAll ==
    BalanceOf(logs, reply'.restaurant_id, reply'.ingredient_id, today)
      - BalanceOf(logs', reply'.restaurant_id, reply'.ingredient_id, today)
        = reply'.qty

\* the ledger side of a usage post of q against active batches holding A: it
\* goes down by min(q, A), never below 0, and the rest is the reported
\* shortfall
LedgerTakesAvailable ==
    LET r == reply'.restaurant_id
        i == reply'.ingredient_id
        q == reply'.qty
        A == SumRemaining(batches, ActiveOf(batches, r, i))
        taken == SumRemaining(batches, PairIds(batches, r, i))
                   - SumRemaining(batches', PairIds(batches', r, i))
    IN /\ taken = Min(q, A)
       /\ \A k \in DOMAIN batches' : batches'[k].qty_remaining >= 0
       /\ Len(reply'.fifo) = 1
       /\ q - taken = reply'.fifo[1].shortfall

\* C25 (as claimed): on every usage event of quantity q against active
\* batches holding A the day's inventory_end decreases by exactly q, the
\* total quantity_remaining of the ledger decreases by exactly min(q, A) and
\* stays at or above 0, and the difference of the two decreases is the
\* reported shortfall.
C25_AsClaimed == [][IsUsagePostStep => (LogTakesAll /\ LedgerTakesAvailable)]_vars

\* C25 (amended): on every usage event of quantity q the day's inventory_end
\* decreases by exactly q; when the deduction of the event completes, the
\* total quantity_remaining decreases by exactly min(q, A), stays at or above
\* 0, and the difference of the two decreases is the reported shortfall; when
\* the deduction fails, the ledger is unchanged and no shortfall is reported.
C25_ClampingAsymmetry ==
    [][IsUsagePostStep =>
        /\ LogTakesAll
        /\ last'.op = "fifo_deduct"
        /\ last'.outcome \in {"ok", "raised"}
        /\ last'.outcome = "ok" => LedgerTakesAvailable
        /\ last'.outcome = "raised" => (batches' = batches /\ reply'.fifo = <<>>)]_vars

\* C25 witness: a usage of more than the ledger held was deducted: the
\* batches are empty, the balance of the day is negative and the shortfall
\* is reported
C25_Witness ==
    /\ reply.op = "post_usage" /\ reply.status = 201
    /\ last.op = "fifo_deduct" /\ last.outcome = "ok"
    /\ Len(last.affected) >= 1
    /\ last.shortfall > 0
    /\ reply.fifo /= <<>>
    /\ \A k \in DOMAIN batches : batches[k].qty_remaining = 0
    /\ \E x \in RowsOf(logs, reply.restaurant_id, reply.ingredient_id, today) :
          x.inventory_end < 0

\* ------------------------------------------------------------ the day chain
\* C28 (as claimed): in every reachable state, for each (restaurant,
\* ingredient), every log row's inventory_start equals the current
\* inventory_end of the row with the latest earlier date for that pair (0 if
\* there is none), for every interleaving of posts, a post that started on
\* day D and commits after the row of day D+1 was seeded included.
C28_DayChain ==
    \A x \in logs :
        LET earlier == EarlierRows(logs, x.restaurant_id, x.ingredient_id, x.log_date)
        IN IF earlier = {} THEN x.inventory_start = 0
           ELSE \E y \in earlier :
                  /\ \A z \in earlier : z.log_date <= y.log_date
                  /\ x.inventory_start = y.inventory_end

\* ---------------------------------------------------- the two read paths
\* the positions of an ingredient in the merged list
EntriesOf(all, i) == {n \in DOMAIN all : all[n].ingredient_id = i}

\* the entry of the single lookup and the entries of its ingredient in the
\* merged list are of the same tier and, for forecasts, of the same date
SameEntry ==
    /\ (calc.single = <<>>) <=> (EntriesOf(calc.all, calc.ingredient_id) = {})
    /\ calc.single /= <<>> =>
          \A n \in EntriesOf(calc.all, calc.ingredient_id) :
              /\ calc.all[n].confidence = calc.single[1].confidence
              /\ calc.single[1].confidence = "high" =>
                    calc.all[n].prediction_date = calc.single[1].prediction_date

\* C30 (as claimed): for every restaurant and ingredient the entry of
\* get_single_prediction has the same confidence tier and the same forecast
\* date as the ingredient's entry in the merged list of get_all_predictions,
\* and the single lookup returns an entry exactly when the merged list has
\* one for the ingredient, also when the ingredients of a restaurant have
\* different most-recent forecast dates.
C30_ReadPathsAgree == calc.op = "get_single_prediction" => SameEntry

\* the same when the looked-up ingredient's most recent forecast, if it has
\* one, is of the restaurant's most recent forecast date, and the ingredient
\* is not in both tiers
ReadPathsAgreeOnOneDate ==
    calc.op = "get_single_prediction" =>
        LET mine == get_xgboost_prediction_single(calc.predictions,
                                                  calc.restaurant_id, calc.ingredient_id)
            latest == get_xgboost_predictions(calc.predictions, calc.restaurant_id)
            low == get_simple_prediction_item(calc.view, calc.restaurant_id,
                                              calc.ingredient_id)
        IN (mine \subseteq latest /\ (mine = {} \/ low = {})) => SameEntry

\* ---------------------------------------------------- the recommendations
\* the run is on the one ingredient of the scenario: "Chicken Breast",
\* inventory 10, avg_daily_usage 6, predicted ending inventory 10
IsScenario ==
    /\ calc.op = "generate_restock_recommendations"
    /\ Len(calc.grouped) = 1
    /\ calc.grouped[1].ingredient_name = <<"C", "h", "i", "c", "k", "e", "n", " ", "B", "r", "e", "a", "s", "t">>
    /\ calc.grouped[1].inventory_start = 10
    /\ calc.grouped[1].avg_daily_usage_7d = 6
    /\ calc.grouped[1].pred_mean = 10

\* C21 (as claimed): "Chicken Breast" with inventory 10, avg_daily_usage 6
\* and predicted ending inventory 10 (days_until_stockout = 10/6) is
\* classified PROTEIN, gets restock_needed = true and priority CRITICAL.
C21_Scenario ==
    IsScenario =>
        /\ Len(calc.recommendations) = 1
        /\ calc.recommendations[1].category = "protein"
        /\ calc.recommendations[1].days_until_stockout = [num |-> 10, den |-> 6]
        /\ calc.recommendations[1].restock_needed
        /\ calc.recommendations[1].priority = "CRITICAL"

\* what the run gives for the scenario: PROTEIN, restock_needed, and HIGH
ScenarioIsHigh ==
    IsScenario =>
        /\ Len(calc.recommendations) = 1
        /\ calc.recommendations[1].category = "protein"
        /\ calc.recommendations[1].days_until_stockout = [num |-> 10, den |-> 6]
        /\ calc.recommendations[1].days_until_spoilage = 2
        /\ calc.recommendations[1].restock_needed
        /\ calc.recommendations[1].priority = "HIGH"

\* ------------------------------------------------ suggested order quantity
\* the suggested order quantity of the claim for a recommendation, in
\* thousandths
ClaimedOrderQty(rec) ==
    LET metadata == CATEGORY_METADATA(rec.category)
        cycle == Hundredths * rec.avg_daily_usage
                   * (metadata.delivery_frequency_days + metadata.order_lead_time_days)
        predicted == Hundredths * rec.predicted_inventory_end
    IN IF rec.category \in {"produce", "protein"}
       THEN Max(0, safety_factor * (cycle - predicted))
       ELSE Max(0, safety_factor * (rec.target_stock_level - predicted))

\* C24 (as claimed): the suggested order quantity is max(0, safety_factor x
\* (avg_daily_usage x (delivery_frequency_days + order_lead_time_days) -
\* predicted_ending_inventory)) for produce and protein and max(0,
\* safety_factor x (target_stock - predicted_ending_inventory)) for the other
\* categories, with a fixed safety_factor > 1; it is never negative, and
\* positive for a non-perishable ingredient whose predicted ending inventory
\* is below target_stock.
C24_OrderQty ==
    calc.op = "generate_restock_recommendations" =>
        \A n \in DOMAIN calc.recommendations :
            LET rec == calc.recommendations[n]
            IN /\ rec.suggested_order_qty = ClaimedOrderQty(rec)
               /\ safety_factor > 10
               /\ rec.suggested_order_qty >= 0
               /\ (/\ rec.category = "non_perishable"
                   /\ Hundredths * rec.predicted_inventory_end < rec.target_stock_level)
                    => rec.suggested_order_qty > 0

\* the quantity of the amended claim, in thousandths: without a positive
\* avg_daily_usage the delivery cycle of produce and protein is sized as half
\* of target_stock
AmendedOrderQty(rec) ==
    LET metadata == CATEGORY_METADATA(rec.category)
        cycle == IF rec.avg_daily_usage > 0
                 THEN Hundredths * rec.avg_daily_usage
                        * (metadata.delivery_frequency_days + metadata.order_lead_time_days)
                 ELSE rec.target_stock_level \div 2
        predicted == Hundredths * rec.predicted_inventory_end
    IN IF rec.category \in {"produce", "protein"}
       THEN Max(0, safety_factor * (cycle - predicted))
       ELSE Max(0, safety_factor * (rec.target_stock_level - predicted))

\* C24 (amended): without restock_needed the suggested order quantity is 0;
\* with restock_needed it is max(0, safety_factor x (needed -
\* predicted_ending_inventory)), needed being avg_daily_usage x
\* (delivery_frequency_days + order_lead_time_days) for produce and protein
\* (half of target_stock when avg_daily_usage is not positive) and
\* target_stock for the other categories, with a fixed safety_factor > 1; it
\* is never negative, and positive for a non-perishable ingredient with
\* restock_needed whose predicted ending inventory is below target_stock.
C24_OrderQtyWhenRestockNeeded ==
    calc.op = "generate_restock_recommendations" =>
        \A n \in DOMAIN calc.recommendations :
            LET rec == calc.recommendations[n]
            IN /\ rec.restock_needed => rec.suggested_order_qty = AmendedOrderQty(rec)
               /\ ~rec.restock_needed => rec.suggested_order_qty = 0
               /\ safety_factor > 10
               /\ rec.suggested_order_qty >= 0
               /\ (/\ rec.category = "non_perishable"
                   /\ rec.restock_needed
                   /\ Hundredths * rec.predicted_inventory_end < rec.target_stock_level)
                    => rec.suggested_order_qty > 0

\* C24 witness: a non-perishable ingredient with a positive avg_daily_usage
\* predicted below its reorder point: restock_needed, and a positive quantity
C24_Witness ==
    /\ calc.op = "generate_restock_recommendations"
    /\ \E n \in DOMAIN calc.recommendations :
          LET rec == calc.recommendations[n]
          IN /\ rec.category = "non_perishable"
             /\ rec.avg_daily_usage > 0
             /\ rec.restock_needed
             /\ rec.suggested_order_qty > 0
             /\ rec.suggested_order_qty
                   = safety_factor * (rec.target_stock_level
                                        - Hundredths * rec.predicted_inventory_end)

\* ---------------------------------------------------------- confidence band
\* the band of the claim around the forecast f, in ten-thousandths:
\* f -/+ 1.96 x 0.15 x f
BandOf(f) ==
    [low |-> BandScale * f - 196 * 15 * f, high |-> BandScale * f + 196 * 15 * f]

\* C29 (as claimed): for every point forecast f of the engine, negative ones
\* and 0 included, confidence_low = f - 1.96 x 0.15 x f and confidence_high =
\* f + 1.96 x 0.15 x f, and confidence_low <= f <= confidence_high.
C29_BandOrder ==
    calc.op = "generate_restock_recommendations" =>
        \A n \in DOMAIN calc.recommendations :
            LET rec == calc.recommendations[n]
                f == rec.predicted_inventory_end
            IN /\ rec.confidence_low = BandOf(f).low
               /\ rec.confidence_high = BandOf(f).high
               /\ rec.confidence_low <= BandScale * f
               /\ BandScale * f <= rec.confidence_high

\* the band is as claimed for every forecast, in order around a forecast that
\* is not negative and in the opposite order around a negative one
BandOrderBySign ==
    calc.op = "generate_restock_recommendations" =>
        \A n \in DOMAIN calc.recommendations :
            LET rec == calc.recommendations[n]
                f == rec.predicted_inventory_end
            IN /\ rec.confidence_low = BandOf(f).low
               /\ rec.confidence_high = BandOf(f).high
               /\ f >= 0 => /\ rec.confidence_low <= BandScale * f
                            /\ BandScale * f <= rec.confidence_high
               /\ f < 0 => /\ rec.confidence_high < BandScale * f
                           /\ BandScale * f < rec.confidence_low

\* ------------------------------------------------------------- the ranking
\* the ranks of the claim
C22_PriorityRank(p) ==
    CASE p = "CRITICAL" -> 0 [] p = "HIGH" -> 1 [] p = "MEDIUM" -> 2 [] p = "LOW" -> 3

C22_CategoryRank(c) ==
    CASE c = "protein" -> 0 [] c = "produce" -> 1 [] c = "dairy" -> 2
      [] c = "non_perishable" -> 3 [] c = "alcohol_dry" -> 4

\* a number of days is below another: an infinite one is below none and
\* above every finite one
C22_DaysBelow(a, b) ==
    IF a.den = 0 THEN FALSE
    ELSE IF b.den = 0 THEN TRUE
    ELSE a.num * b.den < b.num * a.den

\* the key of x is below the key of y, item by item
C22_KeyBelow(x, y) ==
    LET px == C22_PriorityRank(x.priority)
        py == C22_PriorityRank(y.priority)
        cx == C22_CategoryRank(x.category)
        cy == C22_CategoryRank(y.category)
        sameDays == /\ ~C22_DaysBelow(x.days_until_stockout, y.days_until_stockout)
                    /\ ~C22_DaysBelow(y.days_until_stockout, x.days_until_stockout)
    IN \/ px < py
       \/ px = py /\ cx < cy
       \/ px = py /\ cx = cy
            /\ C22_DaysBelow(x.days_until_stockout, y.days_until_stockout)
       \/ px = py /\ cx = cy /\ sameDays
            /\ -x.suggested_order_qty < -y.suggested_order_qty

\* the position of a recommendation in the computed list
C22_InputPosition(x) == CHOOSE k \in DOMAIN calc.computed : calc.computed[k] = x

C23_Malformed(row) == row.features = 0 \/ row.avg_daily_usage_7d = NULL

\* the places of the output that hold a recommendation for the row
C23_PlacesOf(row) ==
    {m \in DOMAIN calc.recommendations :
        calc.recommendations[m].ingredient_id = row.ingredient_id}

\* C23: a run over ingredients of which some have malformed or empty feature
\* rows completes without raising; the output has exactly one recommendation
\* for each well-formed ingredient and none for a malformed one, and the
\* recommendation of a well-formed ingredient is the one a run over that
\* ingredient alone gives, whatever failed beside it.
C23_Isolation ==
    calc.op = "generate_restock_recommendations" =>
        /\ calc.outcome = "returned"
        /\ Len(calc.recommendations)
              = Cardinality({n \in DOMAIN calc.grouped : ~C23_Malformed(calc.grouped[n])})
        /\ \A n \in DOMAIN calc.grouped :
              LET row == calc.grouped[n]
                  alone == GenerateCall(<<row>>).recommendations
              IN IF C23_Malformed(row)
                 THEN C23_PlacesOf(row) = {} /\ alone = <<>>
                 ELSE /\ Cardinality(C23_PlacesOf(row)) = 1
                      /\ Len(alone) = 1
                      /\ \A m \in C23_PlacesOf(row) : calc.recommendations[m] = alone[1]

\* C23 witness: a run with a row that raised, a row without feature rows, and
\* well-formed rows before and after the row that raised, each with its
\* recommendation
C23_Witness ==
    /\ calc.op = "generate_restock_recommendations"
    /\ calc.outcome = "returned"
    /\ calc.warnings > 0
    /\ \E n \in DOMAIN calc.grouped : calc.grouped[n].features = 0
    /\ \E k, n, m \in DOMAIN calc.grouped :
          /\ k < n /\ n < m
          /\ calc.grouped[n].features > 0
          /\ calc.grouped[n].avg_daily_usage_7d = NULL
          /\ ~C23_Malformed(calc.grouped[k])
          /\ ~C23_Malformed(calc.grouped[m])
          /\ C23_PlacesOf(calc.grouped[k]) /= {}
          /\ C23_PlacesOf(calc.grouped[m]) /= {}

====
